---- MODULE Spec2Model ----
(***************************************************************************)
(* A model of the IMAP COPY handler, helpers/imap/on-copy.js (onCopy), and *)
(* of the handlers of the SMTP server, smtp-server.js.                     *)
(*                                                                         *)
(* The account storage (session.db) holds the tables Messages, Mailboxes   *)
(* and Attachments.  Several sessions of one account run onCopy; every     *)
(* `await` of the handler is a point where another session may run, so     *)
(* each stretch of code between two awaits is one action.                  *)
(***************************************************************************)
EXTENDS Integers, Sequences, FiniteSets, TLC

VARIABLES
  messages,      \* table Messages: a set of rows
  mailboxes,     \* table Mailboxes: mailbox _id -> row
  attachments,   \* table Attachments: hash -> row
  lockHolder,    \* the account's write lock: the session holding it, or None
  notifier,      \* this.server.notifier: the entries added and the wake-ups fired
  quotaCheck,    \* per session: its latest detached post-flight quota check
  sess,          \* per session: the position in onCopy and its local variables
  started,       \* number of onCopy invocations made so far
  wsp,           \* this.wsp: whether the centralized dispatch is configured
  conn,          \* per session: the proxied request, the timer and the notices
  closeTimeout,  \* SMTP: whether this.server._closeTimeout is set
  session,       \* SMTP: the session of the one client connection
  db,            \* SMTP: the domain and the alias of the account, as stored
  handler,       \* SMTP: the handler under way, its position and locals
  emails,        \* SMTP: number of emails queued
  signals,       \* SMTP: number of messages posted to the send-emails worker
  denylist,      \* SMTP: the denylist keys set
  limiter,       \* SMTP: number of calls of the rate limiter
  commands       \* SMTP: number of handler invocations made so far

imapVars ==
  <<messages, mailboxes, attachments, lockHolder, notifier, quotaCheck, sess,
    started, wsp, conn>>

smtpVars ==
  <<closeTimeout, session, db, handler, emails, signals, denylist, limiter,
    commands>>

vars ==
  <<messages, mailboxes, attachments, lockHolder, notifier, quotaCheck, sess,
    started, wsp, conn, closeTimeout, session, db, handler, emails, signals,
    denylist, limiter, commands>>

----------------------------------------------------------------------------
(* Bounds of the model *)

\* at most this many onCopy invocations are made in one behaviour
MaxCopies == 2

\* at most this many 'Copy still in progress' notices are looked at in one
\* invocation
MaxNotices == 2

\* at most this many SMTP handler invocations are made in one behaviour
MaxCommands == 3

\* the sessions (client connections) of the one account, named in the order
\* of their first command
Sessions == {"s1", "s2"}

\* the mailboxes of the account; a mailbox's path is its name here
MailboxIds == {"A", "B"}

\* the COPY commands a client sends: the source mailbox, the destination
\* path and update.messages, a list of UIDs that is empty for "no filter".
\* No mailbox X exists.
Requests ==
  { [mailboxId |-> "A", destination |-> "B", messages |-> <<>>],
    [mailboxId |-> "A", destination |-> "B", messages |-> <<2>>],
    [mailboxId |-> "B", destination |-> "A", messages |-> <<2>>],
    [mailboxId |-> "X", destination |-> "X", messages |-> <<>>],
    [mailboxId |-> "A", destination |-> "X", messages |-> <<>>] }

None == "none"

----------------------------------------------------------------------------
(* The account storage after construction *)

\* mimeTree is a list of nodes, each naming the attachment it refers to (or
\* None for a text part); body stands for the columns onCopy copies unchanged
InitMessages ==
  { [id |-> 1, mailbox |-> "A", uid |-> 1, size |-> 2, magic |-> 1,
     mimeTree |-> <<"h1", None, "h1">>, body |-> "m1", copied |-> FALSE,
     junk |-> FALSE, exp |-> 0, modseq |-> 0, transaction |-> "APPEND"],
    [id |-> 2, mailbox |-> "A", uid |-> 2, size |-> 0, magic |-> 1,
     mimeTree |-> <<None, "h1", "h2">>, body |-> "m2", copied |-> FALSE,
     junk |-> TRUE, exp |-> 0, modseq |-> 0, transaction |-> "APPEND"],
    [id |-> 3, mailbox |-> "B", uid |-> 1, size |-> 0, magic |-> 1,
     mimeTree |-> <<None>>, body |-> "m3", copied |-> FALSE,
     junk |-> FALSE, exp |-> 0, modseq |-> 0, transaction |-> "APPEND"] }

InitMailboxes ==
  [b \in MailboxIds |->
     IF b = "A"
     THEN [id |-> "A", path |-> "A", uidNext |-> 3, uidValidity |-> 11,
           modifyIndex |-> 5, retention |-> <<>>, specialUse |-> ""]
     ELSE [id |-> "B", path |-> "B", uidNext |-> 2, uidValidity |-> 22,
           modifyIndex |-> 7, retention |-> <<0>>, specialUse |-> "\\Junk"]]

Hashes == {"h1", "h2"}

InitAttachments ==
  [h \in Hashes |-> IF h = "h1" THEN [counter |-> 2, magic |-> 2]
                                ELSE [counter |-> 1, magic |-> 1]]

----------------------------------------------------------------------------
(* Helpers of the handler *)

Range(q) == {q[i] : i \in DOMAIN q}

\* tools.checkRangeQuery(update.messages): the condition on uid that holds of
\* exactly the listed UIDs
checkRangeQuery(uidList) == Range(uidList)

\* the rows the select of lines 131-154 matches: those of the source mailbox,
\* and, when update.messages is not empty, with a listed uid
Matching(rows, mailboxId, uidList) ==
  {m \in rows : /\ m.mailbox = mailboxId
                /\ (Len(uidList) > 0 => m.uid \in checkRangeQuery(uidList))}

\* the order of a descending sort
BeforeDescending(a, b) == a.uid > b.uid \/ (a.uid = b.uid /\ a.id < b.id)

\* the order of `sort: 'uid'`: ascending uid (rows of equal uid in the order
\* of their insertion)
Before(a, b) == a.uid < b.uid \/ (a.uid = b.uid /\ a.id < b.id)

RECURSIVE SortRows(_)
SortRows(rows) ==
  IF rows = {} THEN <<>>
  ELSE LET first == CHOOSE a \in rows : \A b \in rows \ {a} : Before(a, b)
       IN  <<first>> \o SortRows(rows \ {first})

\* session.db.prepare(sql.query).all(sql.values)
SelectMessages(rows, mailboxId, uidList) ==
  SortRows(Matching(rows, mailboxId, uidList))

\* getAttachments(m.mimeTree): the attachment hashes of the nodes of the tree,
\* in order, one per node that has one
RECURSIVE getAttachments(_)
getAttachments(mimeTree) ==
  IF mimeTree = <<>> THEN <<>>
  ELSE (IF Head(mimeTree) = None THEN <<>> ELSE <<Head(mimeTree)>>)
         \o getAttachments(Tail(mimeTree))

\* m.exp: set only for a numeric retention other than zero.  A retention is
\* <<>> when the mailbox has none and <<n>> when it is the number n.
Exp(retention) ==
  IF (IF Len(retention) = 1 THEN retention[1] # 0 ELSE FALSE) THEN 1 ELSE 0

\* m.junk
Junk(specialUse) == specialUse = "\\Junk"

\* a rewrite that leaves the junk flag as it is on the source row
NewRowKeepsJunk(m, newId, uid, mailbox, targetMailbox) ==
  [m EXCEPT !.id = newId,
            !.mailbox = targetMailbox.id,
            !.uid = uid,
            !.exp = Exp(targetMailbox.retention),
            !.modseq = mailbox.modifyIndex,
            !.transaction = "COPY"]

\* the row onCopy makes of the source row m: new _id, mailbox, uid, exp,
\* modseq, junk and transaction; every other column is m's
NewRow(m, newId, uid, mailbox, targetMailbox) ==
  [m EXCEPT !.id = newId,
            !.mailbox = targetMailbox.id,
            !.uid = uid,
            !.exp = Exp(targetMailbox.retention),
            !.modseq = mailbox.modifyIndex,
            !.junk = Junk(targetMailbox.specialUse),
            !.transaction = "COPY"]

\* an insert that skips a row whose mailbox and uid are taken
InsertOrIgnore(rows, row) ==
  IF \E m \in rows : m.mailbox = row.mailbox /\ m.uid = row.uid
  THEN rows ELSE rows \cup {row}

\* insert into Messages
InsertMessage(rows, row) == rows \cup {row}

\* an update run once per element of attachmentIds
IncPerOccurrence(att, attachmentIds, magic) ==
  [h \in DOMAIN att |->
     LET n == Cardinality({k \in DOMAIN attachmentIds : attachmentIds[k] = h})
     IN  [counter |-> att[h].counter + n, magic |-> att[h].magic + n * magic]]

\* update Attachments where hash in attachmentIds: each matching row once
IncAttachments(att, attachmentIds, magic) ==
  [h \in DOMAIN att |->
     IF h \in Range(attachmentIds)
     THEN [counter |-> att[h].counter + 1, magic |-> att[h].magic + magic]
     ELSE att[h]]

\* an update that marks every row of the mailboxes the source rows are in
SetCopiedInMailbox(rows, sourceIds) ==
  {IF \E o \in rows : o.id \in Range(sourceIds) /\ o.mailbox = m.mailbox
   THEN [m EXCEPT !.copied = TRUE] ELSE m : m \in rows}

\* update Messages set copied = true where _id in sourceIds
SetCopied(rows, sourceIds) ==
  {IF m.id \in Range(sourceIds) THEN [m EXCEPT !.copied = TRUE] ELSE m :
     m \in rows}

\* an update that also starts a new UID epoch
SetUidNextAndValidity(boxes, id, uidNext) ==
  [boxes EXCEPT ![id] = [@ EXCEPT !.uidNext = uidNext,
                                  !.uidValidity = @ + 1]]

\* update Mailboxes set uidNext where _id = targetMailbox._id
SetUidNext(boxes, id, uidNext) ==
  [boxes EXCEPT ![id] = [@ EXCEPT !.uidNext = uidNext]]

----------------------------------------------------------------------------
(* The transactional batch, lines 156-276 *)

\* the statements of the batch that run against the storage and may throw:
\* per message its insert and, when it has attachments, the counter update;
\* then the bulk `copied` update and the uidNext update
Faults(msgs) ==
  {<<"insert", i>> : i \in 1..Len(msgs)}
    \cup {<<"attach", i>> :
            i \in {j \in 1..Len(msgs) : Len(getAttachments(msgs[j].mimeTree)) > 0}}
    \cup {<<"copied", 0>>, <<"uidNext", 0>>}

NoFault == <<"none", 0>>

\* the state the batch works on: the three tables and the handler's local
\* variables
BatchStart(uidNext) ==
  [messages |-> messages, mailboxes |-> mailboxes, attachments |-> attachments,
   uidNext |-> uidNext,
   sourceIds |-> <<>>, sourceUid |-> <<>>, destinationUid |-> <<>>,
   entries |-> <<>>, copiedMessages |-> 0, copiedStorage |-> 0,
   failed |-> FALSE]

\* new mongoose.Types.ObjectId(): an identifier no row has.  Identifiers are
\* numbers here and the least one above those in use is taken.
ObjectId(rows) ==
  CHOOSE n \in 1..(Cardinality(rows) + 1) :
    /\ \A m \in rows : m.id < n
    /\ \A k \in 1..(n - 1) : \E m \in rows : m.id >= k

\* sourceUid.unshift(m.uid) and destinationUid.unshift(uidNext)
Unshift(list, x) == <<x>> \o list

\* one turn of `for (const m of messages)`, lines 159-238, for the i-th row
CopyMessage(t, m, i, mailbox, targetMailbox, fault) ==
  LET newId == ObjectId(t.messages)
      row == NewRow(m, newId, t.uidNext, mailbox, targetMailbox)
      attachmentIds == getAttachments(row.mimeTree)
      t1 == [t EXCEPT !.sourceUid = Unshift(@, m.uid),
                      !.sourceIds = Append(@, m.id),
                      !.destinationUid = Unshift(@, t.uidNext)]
      t2 == [t1 EXCEPT !.messages = InsertMessage(@, row)]
      t3 == IF Len(attachmentIds) > 0
            THEN [t2 EXCEPT !.attachments =
                              IncAttachments(@, attachmentIds, row.magic)]
            ELSE t2
  IN  IF fault = <<"insert", i>> THEN [t1 EXCEPT !.failed = TRUE]
      ELSE IF fault = <<"attach", i>> /\ Len(attachmentIds) > 0
      THEN [t2 EXCEPT !.failed = TRUE]
      ELSE [t3 EXCEPT !.copiedMessages = @ + 1,
                      !.copiedStorage = @ + row.size,
                      !.uidNext = @ + 1,
                      !.entries = Append(@, [command |-> "EXISTS",
                                             uid |-> row.uid,
                                             mailbox |-> targetMailbox.id,
                                             message |-> newId])]

RECURSIVE CopyMessages(_, _, _, _, _, _)
CopyMessages(t, msgs, i, mailbox, targetMailbox, fault) ==
  IF i > Len(msgs) \/ t.failed THEN t
  ELSE CopyMessages(CopyMessage(t, msgs[i], i, mailbox, targetMailbox, fault),
                    msgs, i + 1, mailbox, targetMailbox, fault)

\* the function given to session.db.transaction, run to its end or to the
\* statement that throws
BatchBody(t, msgs, mailbox, targetMailbox, fault) ==
  LET t1 == CopyMessages(t, msgs, 1, mailbox, targetMailbox, fault)
      t2 == [t1 EXCEPT !.messages = SetCopied(@, t1.sourceIds)]
      t3 == [t2 EXCEPT !.mailboxes =
                         SetUidNext(@, targetMailbox.id, t2.uidNext)]
  IN  IF t1.failed THEN t1
      ELSE IF fault = <<"copied", 0>> THEN [t1 EXCEPT !.failed = TRUE]
      ELSE IF fault = <<"uidNext", 0>> THEN [t2 EXCEPT !.failed = TRUE]
      ELSE t3

\* a batch run outside a transaction: what was written stays
NoRollback(t, after) == after

\* session.db.transaction(...).immediate(messages): the body's writes are
\* committed when it returns and rolled back when it throws; the handler's
\* local variables are not part of the storage
Transaction(t, after) ==
  IF after.failed
  THEN [after EXCEPT !.messages = t.messages,
                     !.mailboxes = t.mailboxes,
                     !.attachments = t.attachments]
  ELSE after

----------------------------------------------------------------------------
(* The sessions *)

\* what Mailboxes.findOne yields when no row matches
NoMailbox ==
  [id |-> None, path |-> None, uidNext |-> 0, uidValidity |-> 0,
   modifyIndex |-> 0, retention |-> <<>>, specialUse |-> ""]

NoResponse == [uidValidity |-> 0, sourceUid |-> <<>>, destinationUid |-> <<>>]

\* a session that is not inside onCopy.  fn lists the calls of the callback
\* made by the current invocation, fatal the errors it gave to
\* this.logger.fatal; acquires and releases count its calls of acquireLock
\* and releaseLock
IdleSession ==
  [pc |-> "idle", mailboxId |-> None,
   update |-> [destination |-> None, messages |-> <<>>],
   mailbox |-> NoMailbox, targetMailbox |-> NoMailbox,
   lock |-> FALSE, err |-> None,
   sourceUid |-> <<>>, destinationUid |-> <<>>, entries |-> <<>>,
   copiedMessages |-> 0, copiedStorage |-> 0,
   fn |-> <<>>, fatal |-> {}, acquires |-> 0, releases |-> 0]

\* a connection on which no COPY is being proxied: no timer is pending, no
\* notice has been sent, no request has been made (request is a list of at
\* most one payload)
IdleConnection == [timeout |-> FALSE, sent |-> 0, request |-> <<>>]

\* an SMTP handler that is not under way.  fn lists the calls of the
\* callback made by the current invocation, did the calls it has made to the
\* resolver, the database, the rate limiter, the stream and the queue; user
\* is the clone of session.user, root whether a root domain was found,
\* domain and alias the rows looked up
IdleHandler ==
  [name |-> None, pc |-> "idle", fn |-> <<>>, did |-> {}, user |-> <<>>,
   root |-> FALSE, domain |-> <<>>, alias |-> <<>>]

\* the SMTP server after construction, with no client and no account
SmtpConstructed ==
  /\ closeTimeout = FALSE
  /\ session = [user |-> <<>>, arrivalDate |-> FALSE]
  /\ db = [domain |-> <<>>, alias |-> <<>>]
  /\ handler = IdleHandler
  /\ emails = 0
  /\ signals = 0
  /\ denylist = {}
  /\ limiter = 0
  /\ commands = 0

\* a server without this.wsp: onCopy works on the storage itself
Init ==
  /\ messages = InitMessages
  /\ mailboxes = InitMailboxes
  /\ attachments = InitAttachments
  /\ lockHolder = None
  /\ notifier = [entries |-> {}, fired |-> {}]
  /\ quotaCheck = [s \in Sessions |-> "none"]
  /\ sess = [s \in Sessions |-> IdleSession]
  /\ started = 0
  /\ wsp = FALSE
  /\ conn = [s \in Sessions |-> IdleConnection]
  /\ SmtpConstructed

\* Mailboxes.findOne(this, session, {_id: mailboxId})
FindById(boxes, id) ==
  IF id \in DOMAIN boxes THEN boxes[id] ELSE NoMailbox

\* Mailboxes.findOne(this, session, {path: update.destination})
FindByPath(boxes, path) ==
  IF \E b \in DOMAIN boxes : boxes[b].path = path
  THEN boxes[CHOOSE b \in DOMAIN boxes : boxes[b].path = path]
  ELSE NoMailbox

\* onCopy is over: its local variables are gone; the calls it made of fn, of
\* the logger and of the lock helpers, and whether it was given the lock
\* remain to be seen
Returned(q, calls) ==
  [IdleSession EXCEPT !.pc = "done", !.fn = calls,
                      !.lock = q.lock, !.fatal = q.fatal,
                      !.acquires = q.acquires, !.releases = q.releases]

\* fn(refineAndLogError(err, session, true, this)), line 380
FnError(q, e) ==
  Returned(q, Append(q.fn, [err |-> e, ok |-> FALSE, response |-> NoResponse]))

\* fn(null, true, {uidValidity, sourceUid, destinationUid}), lines 374-378
FnSuccess(q) ==
  Returned(q, Append(q.fn, [err |-> None, ok |-> TRUE,
                            response |->
                              [uidValidity |-> q.targetMailbox.uidValidity,
                               sourceUid |-> q.sourceUid,
                               destinationUid |-> q.destinationUid]]))

\* a client sends COPY, as the session's first command or after the previous
\* one has called back: onCopy is entered, line 34.  The sessions being
\* alike, s1 names the one that sends the first command.  A session's next
\* command comes when the post-flight check of its previous one has settled;
\* what that check logged is then no longer looked at.
Start(s, mailboxId, destination, uidList) ==
  /\ ~wsp
  /\ sess[s].pc \in {"idle", "done"}
  /\ s = "s2" => sess["s1"].pc # "idle"
  /\ started < MaxCopies
  /\ started' = started + 1
  /\ sess' = [sess EXCEPT ![s] =
                [IdleSession EXCEPT !.pc = "refresh",
                                    !.mailboxId = mailboxId,
                                    !.update = [destination |-> destination,
                                                messages |-> uidList]]]
  /\ quotaCheck[s] # "pending"
  /\ quotaCheck' = [quotaCheck EXCEPT ![s] = "none"]
  /\ UNCHANGED <<messages, mailboxes, attachments, lockHolder, notifier>>
  /\ UNCHANGED <<wsp, conn>>
  /\ UNCHANGED smtpVars

\* await this.refreshSession(session, 'COPY') ends, line 74: it returns or
\* throws
RefreshSession(s, ok) ==
  /\ sess[s].pc = "refresh"
  /\ sess' = [sess EXCEPT ![s] =
                IF ok THEN [sess[s] EXCEPT !.pc = "quota"]
                ELSE FnError(sess[s], "REFRESH")]
  /\ UNCHANGED <<messages, mailboxes, attachments, lockHolder, notifier, quotaCheck,
               started>>
  /\ UNCHANGED <<wsp, conn>>
  /\ UNCHANGED smtpVars

\* await Aliases.isOverQuota(..., 0, ...) ends, lines 77-93
PreflightQuota(s, isOverQuota) ==
  /\ sess[s].pc = "quota"
  /\ sess' = [sess EXCEPT ![s] =
                IF isOverQuota THEN FnError(sess[s], "OVERQUOTA")
                ELSE [sess[s] EXCEPT !.pc = "findSource"]]
  /\ UNCHANGED <<messages, mailboxes, attachments, lockHolder, notifier, quotaCheck,
               started>>
  /\ UNCHANGED <<wsp, conn>>
  /\ UNCHANGED smtpVars

\* a handler that does not look at what the first findOne returned
FindSourceUnchecked(s) ==
  /\ sess[s].pc = "findSource"
  /\ sess' = [sess EXCEPT ![s] =
                [sess[s] EXCEPT !.pc = "findTarget",
                                !.mailbox =
                                  FindById(mailboxes, sess[s].mailboxId)]]
  /\ UNCHANGED <<messages, mailboxes, attachments, lockHolder, notifier,
                 quotaCheck, started>>
  /\ UNCHANGED <<wsp, conn>>
  /\ UNCHANGED smtpVars

\* the source mailbox is read, lines 104-114
FindSource(s) ==
  /\ sess[s].pc = "findSource"
  /\ LET mailbox == FindById(mailboxes, sess[s].mailboxId)
     IN  sess' = [sess EXCEPT ![s] =
                    IF mailbox = NoMailbox
                    THEN FnError(sess[s], "NONEXISTENT")
                    ELSE [sess[s] EXCEPT !.pc = "findTarget",
                                         !.mailbox = mailbox]]
  /\ UNCHANGED <<messages, mailboxes, attachments, lockHolder, notifier, quotaCheck,
               started>>
  /\ UNCHANGED <<wsp, conn>>
  /\ UNCHANGED smtpVars

\* a handler that asks for the lock before it has looked at the destination
FindTargetLockFirst(s) ==
  /\ sess[s].pc = "findTarget"
  /\ LET targetMailbox == FindByPath(mailboxes, sess[s].update.destination)
         q == [sess[s] EXCEPT !.acquires = @ + 1]
     IN  sess' = [sess EXCEPT ![s] =
                    IF targetMailbox = NoMailbox
                    THEN FnError(q, "TRYCREATE")
                    ELSE [q EXCEPT !.pc = "acquire",
                                   !.targetMailbox = targetMailbox]]
  /\ UNCHANGED <<messages, mailboxes, attachments, lockHolder, notifier,
                 quotaCheck, started>>
  /\ UNCHANGED <<wsp, conn>>
  /\ UNCHANGED smtpVars

\* the destination mailbox is read, lines 116-126, and acquireLock is called
FindTarget(s) ==
  /\ sess[s].pc = "findTarget"
  /\ LET targetMailbox == FindByPath(mailboxes, sess[s].update.destination)
     IN  sess' = [sess EXCEPT ![s] =
                    IF targetMailbox = NoMailbox
                    THEN FnError(sess[s], "TRYCREATE")
                    ELSE [sess[s] EXCEPT !.pc = "acquire",
                                         !.targetMailbox = targetMailbox,
                                         !.acquires = @ + 1]]
  /\ UNCHANGED <<messages, mailboxes, attachments, lockHolder, notifier, quotaCheck,
               started>>
  /\ UNCHANGED <<wsp, conn>>
  /\ UNCHANGED smtpVars

----------------------------------------------------------------------------
(* The guarded section: lock, select, batch, release *)

\* acquireLock(this, session.db) grants the lock: it is granted to one
\* session at a time
AcquireLock(s) ==
  /\ sess[s].pc = "acquire"
  /\ lockHolder = None
  /\ lockHolder' = s
  /\ sess' = [sess EXCEPT ![s].pc = "batch", ![s].lock = TRUE]
  /\ UNCHANGED <<messages, mailboxes, attachments, notifier, quotaCheck,
               started>>
  /\ UNCHANGED <<wsp, conn>>
  /\ UNCHANGED smtpVars

\* a handler without line 290: the post-commit steps begin whatever the
\* guarded section did
AfterReleaseWhatever(q) == [q EXCEPT !.pc = "storage"]

\* lines 290-362 up to the next await: the error of the guarded section is
\* thrown again and reaches fn; otherwise the post-commit steps begin
AfterRelease(q) ==
  IF q.err # None THEN FnError(q, q.err) ELSE [q EXCEPT !.pc = "storage"]

\* a post-flight check made after every guarded section that did not throw
StartsQuotaCheckAlways(q) == q.err = None

\* `if (copiedMessages > 0 && copiedStorage > 0)`, line 293, reached only
\* when line 290 has not thrown
StartsQuotaCheck(q) ==
  q.err = None /\ q.copiedMessages > 0 /\ q.copiedStorage > 0

\* lines 292-335 for session s leaving the release with the local variables
\* q: Aliases.isOverQuota is called and not awaited
QuotaCheckAfter(checks, s, q) ==
  IF StartsQuotaCheck(q) THEN [checks EXCEPT ![s] = "pending"] ELSE checks

\* a release that is called whether the lock was obtained or not
ShouldReleaseAlways(q) == TRUE

\* a release that is skipped when the guarded section threw
ShouldReleaseUnlessFailed(q) == q.lock /\ q.err = None

\* `if (lock?.success)`, line 282
ShouldRelease(q) == q.lock

\* a handler that throws the error of the guarded section at once, before
\* the release
ThrowsBeforeRelease(q) ==
  IF q.err # None THEN AfterRelease(q)
  ELSE IF ShouldRelease(q)
  THEN [q EXCEPT !.pc = "release", !.releases = @ + 1]
  ELSE AfterRelease(q)

\* lines 281-288: releaseLock is called when the lock was obtained
ThenRelease(q) ==
  IF ShouldRelease(q)
  THEN [q EXCEPT !.pc = "release", !.releases = @ + 1]
  ELSE AfterRelease(q)

\* an error of acquireLock that is swallowed, the section running without
\* the lock
RunsBatchAnyway(q, e) == [q EXCEPT !.pc = "batch"]

\* a throw inside the guarded section, before the lock is there, skips the
\* rest of it: `catch (_err) { err = _err; }`, lines 277-279
AcquireThrew(q, e) == ThenRelease([q EXCEPT !.err = e])

\* acquireLock fails or times out
AcquireLockFails(s) ==
  /\ sess[s].pc = "acquire"
  /\ sess' = [sess EXCEPT ![s] = AcquireThrew(sess[s], "LOCK")]
  /\ UNCHANGED <<messages, mailboxes, attachments, lockHolder, notifier, quotaCheck,
               started>>
  /\ UNCHANGED <<wsp, conn>>
  /\ UNCHANGED smtpVars

\* `let { uidNext } = targetMailbox`, line 147
StartUidNext(q) == q.targetMailbox.uidNext

\* lines 131-276 with the call of releaseLock: the select and the batch, with
\* the statement `fault` throwing (NoFault: none does)
SelectAndBatch(s, fault) ==
  /\ sess[s].pc = "batch"
  /\ LET q == sess[s]
         msgs == SelectMessages(messages, q.mailbox.id, q.update.messages)
         t == BatchStart(StartUidNext(q))
         after == IF Len(msgs) > 0 /\ fault # <<"select", 0>>
                  THEN Transaction(t, BatchBody(t, msgs, q.mailbox,
                                                q.targetMailbox, fault))
                  ELSE t
         threw == after.failed \/ fault = <<"select", 0>>
     IN  /\ fault \in {NoFault, <<"select", 0>>}
                        \cup (IF Len(msgs) > 0 THEN Faults(msgs) ELSE {})
         /\ messages' = after.messages
         /\ mailboxes' = after.mailboxes
         /\ attachments' = after.attachments
         /\ sess' = [sess EXCEPT ![s] =
               ThenRelease([q EXCEPT !.sourceUid = after.sourceUid,
                                     !.destinationUid = after.destinationUid,
                                     !.entries = after.entries,
                                     !.copiedMessages = after.copiedMessages,
                                     !.copiedStorage = after.copiedStorage,
                                     !.err = IF threw THEN "STORAGE" ELSE None])]
  /\ quotaCheck' = IF sess'[s].pc = "storage"
                   THEN QuotaCheckAfter(quotaCheck, s, sess'[s])
                   ELSE quotaCheck
  /\ UNCHANGED <<lockHolder, notifier, started>>
  /\ UNCHANGED <<wsp, conn>>
  /\ UNCHANGED smtpVars

\* what releaseLock(this, session.db, lock) may do to the lock held by
\* `holder`: free it and return, or throw, with the lock freed or not
ReleaseOutcomes(holder) ==
  {[holder |-> None, threw |-> FALSE],
   [holder |-> None, threw |-> TRUE],
   [holder |-> holder, threw |-> TRUE]}

\* a release whose error replaces the outcome of the guarded section
ReleaseRethrown(q, threw) ==
  IF threw THEN [q EXCEPT !.err = "RELEASE"] ELSE q

\* `catch (err) { this.logger.fatal(err, ...) }`, lines 285-287: the error of
\* releaseLock is logged and nothing else
ReleaseEnded(q, threw) ==
  IF threw THEN [q EXCEPT !.fatal = @ \cup {"releaseLock"}] ELSE q

\* await releaseLock(...) ends, lines 283-290, and the handler runs on to its
\* next await (lines 290-359)
ReleaseLock(s, outcome) ==
  /\ sess[s].pc = "release"
  /\ outcome \in ReleaseOutcomes(lockHolder)
  /\ lockHolder' = IF lockHolder = s THEN outcome.holder ELSE lockHolder
  /\ sess' = [sess EXCEPT ![s] =
                AfterRelease(ReleaseEnded(sess[s], outcome.threw))]
  /\ quotaCheck' = QuotaCheckAfter(quotaCheck, s,
                                   ReleaseEnded(sess[s], outcome.threw))
  /\ UNCHANGED <<messages, mailboxes, attachments, notifier, started>>
  /\ UNCHANGED <<wsp, conn>>
  /\ UNCHANGED smtpVars

\* how the promise of the detached Aliases.isOverQuota(...) may settle,
\* lines 307-335: resolved under quota, resolved over quota, or rejected
QuotaCheckOutcomes == {"ok", "isOverQuota", "rejected"}

\* a check whose over-quota result or rejection rolls the batch back
QuotaCheckUndoes(rows, outcome) ==
  IF outcome = "ok" THEN rows ELSE {m \in rows : m.transaction # "COPY"}

\* what the handlers of lines 307-335 do to the storage: nothing
QuotaCheckLeaves(rows, outcome) == rows

\* the detached post-flight check of session s settles, lines 307-335: under
\* quota nothing happens; over quota (.then) and on a rejection (.catch) the
\* error is given to this.logger.fatal.  Nothing awaits it.
QuotaCheckEnds(s, outcome) ==
  /\ quotaCheck[s] = "pending"
  /\ outcome \in QuotaCheckOutcomes
  /\ quotaCheck' = [quotaCheck EXCEPT ![s] =
                      IF outcome = "ok" THEN "none" ELSE "fatal"]
  /\ messages' = QuotaCheckLeaves(messages, outcome)
  /\ UNCHANGED <<mailboxes, attachments, lockHolder, notifier, sess, started>>
  /\ UNCHANGED <<wsp, conn>>
  /\ UNCHANGED smtpVars

----------------------------------------------------------------------------
(* After the commit *)

\* await updateStorageUsed(...) ends, lines 356-372; its error is only
\* logged.  With entries, notifier.addEntries is called next.
UpdateStorage(s, ok) ==
  /\ sess[s].pc = "storage"
  /\ LET q == [sess[s] EXCEPT !.fatal =
                  IF ok THEN @ ELSE @ \cup {"updateStorageUsed"}]
     IN  sess' = [sess EXCEPT ![s] =
                    IF Len(q.entries) > 0
                    THEN [q EXCEPT !.pc = "notify"]
                    ELSE FnSuccess(q)]
  /\ UNCHANGED <<messages, mailboxes, attachments, lockHolder, notifier, quotaCheck,
               started>>
  /\ UNCHANGED <<wsp, conn>>
  /\ UNCHANGED smtpVars

\* await this.server.notifier.addEntries(...) ends, lines 364-381: the
\* entries are added, the wake-up is fired and fn is given the result; or
\* addEntries throws, which the outer catch gives to fn
Notify(s, ok) ==
  /\ sess[s].pc = "notify"
  /\ notifier' =
       IF ok
       THEN [entries |-> notifier.entries \cup Range(sess[s].entries),
             fired |-> notifier.fired \cup {sess[s].update.destination}]
       ELSE notifier
  /\ sess' = [sess EXCEPT ![s] =
                IF ok THEN FnSuccess(sess[s])
                ELSE FnError(sess[s], "NOTIFIER")]
  /\ UNCHANGED <<messages, mailboxes, attachments, lockHolder, quotaCheck,
               started>>
  /\ UNCHANGED <<wsp, conn>>
  /\ UNCHANGED smtpVars

----------------------------------------------------------------------------
(* The remote path: this.wsp is configured, lines 37-71 *)

\* setTimeout(..., ms('15s')), lines 43-46
SetTimeout(c) == [c EXCEPT !.timeout = TRUE]

\* a handler that leaves the timer pending
KeepsTimeout(c) == c

\* clearTimeout(timeout), lines 42, 62 and 65
ClearTimeout(c) == [c EXCEPT !.timeout = FALSE]

\* a client sends COPY to a server with this.wsp, lines 34-60: the timer of
\* `update()` is set and the request is handed to this.wsp.request
Dispatch(s, mailboxId, destination, uidList) ==
  /\ wsp
  /\ sess[s].pc \in {"idle", "done"}
  /\ s = "s2" => sess["s1"].pc # "idle"
  /\ started < MaxCopies
  /\ started' = started + 1
  /\ LET update == [destination |-> destination, messages |-> uidList]
     IN  /\ sess' = [sess EXCEPT ![s] =
                       [IdleSession EXCEPT !.pc = "request",
                                           !.mailboxId = mailboxId,
                                           !.update = update]]
         /\ conn' = [conn EXCEPT ![s] =
                       SetTimeout(ClearTimeout(
                         [IdleConnection EXCEPT !.request =
                            <<[action |-> "copy", mailboxId |-> mailboxId,
                               update |-> update]>>]))]
  /\ UNCHANGED <<messages, mailboxes, attachments, lockHolder, notifier,
                 quotaCheck, wsp>>
  /\ UNCHANGED smtpVars

\* the timer fires, lines 43-46: the notice is sent on the connection and
\* `update()` sets the next timer
TimerFires(s) ==
  /\ conn[s].timeout
  /\ conn[s].sent < MaxNotices
  /\ conn' = [conn EXCEPT ![s] =
                SetTimeout(ClearTimeout([conn[s] EXCEPT !.sent = @ + 1]))]
  /\ UNCHANGED <<messages, mailboxes, attachments, lockHolder, notifier,
                 quotaCheck, sess, started, wsp>>
  /\ UNCHANGED smtpVars

\* the results the authoritative process may give
RemoteResponses ==
  {[uidValidity |-> 22, sourceUid |-> <<1, 2>>, destinationUid |-> <<2, 3>>],
   [uidValidity |-> 22, sourceUid |-> <<>>, destinationUid |-> <<>>]}

\* how this.wsp.request may end: resolved with [bool, response], rejected
\* with an error that carries an imapResponse, or rejected with another error
RequestOutcomes ==
  {[resolved |-> TRUE, bool |-> TRUE, response |-> r, err |-> None,
    imapResponse |-> None] : r \in RemoteResponses}
  \cup
  {[resolved |-> FALSE, bool |-> FALSE, response |-> NoResponse,
    err |-> "IMAPError", imapResponse |-> c] :
      c \in {"OVERQUOTA", "NONEXISTENT", "TRYCREATE"}}
  \cup
  {[resolved |-> FALSE, bool |-> FALSE, response |-> NoResponse,
    err |-> "TIMEOUT", imapResponse |-> None]}

\* fn(null, bool, response), line 63
Resolved(calls, o) ==
  Append(calls, [err |-> None, ok |-> o.bool, response |-> o.response])

\* a catch block whose first call of fn is not followed by a return
RejectedWithoutReturn(calls, o) ==
  LET first == IF o.imapResponse # None
               THEN Append(calls, [err |-> None, code |-> o.imapResponse])
               ELSE calls
  IN  Append(first, [err |-> o.err, ok |-> FALSE, response |-> NoResponse])

\* lines 66-67: `if (err.imapResponse) return fn(null, err.imapResponse);
\* fn(err)`.  The second argument of the first form is the response code.
Rejected(calls, o) ==
  IF o.imapResponse # None
  THEN Append(calls, [err |-> None, code |-> o.imapResponse])
  ELSE Append(calls, [err |-> o.err, ok |-> FALSE, response |-> NoResponse])

\* a handler without the `return` of line 70, which runs on into line 73
AfterRequestFallsThrough(q, calls) == [q EXCEPT !.pc = "refresh", !.fn = calls]

\* `return`, line 70: the invocation is over
AfterRequest(q, calls) == Returned(q, calls)

\* await this.wsp.request(...) ends, lines 61-70: the timer is cleared and fn
\* is given the outcome
RequestEnds(s, o) ==
  /\ sess[s].pc = "request"
  /\ o \in RequestOutcomes
  /\ conn' = [conn EXCEPT ![s] = ClearTimeout(conn[s])]
  /\ sess' = [sess EXCEPT ![s] =
                AfterRequest(sess[s], IF o.resolved
                                      THEN Resolved(sess[s].fn, o)
                                      ELSE Rejected(sess[s].fn, o))]
  /\ UNCHANGED <<messages, mailboxes, attachments, lockHolder, notifier,
                 quotaCheck, started, wsp>>
  /\ UNCHANGED smtpVars

\* the steps of session s on a server with this.wsp
RemoteStep(s) ==
  \/ \E r \in Requests :
        Dispatch(s, r.mailboxId, r.destination, r.messages)
  \/ TimerFires(s)
  \/ \E o \in RequestOutcomes : RequestEnds(s, o)

----------------------------------------------------------------------------

\* every statement that may throw in a batch over the rows there are
AllFaults ==
  {NoFault, <<"select", 0>>, <<"copied", 0>>, <<"uidNext", 0>>}
    \cup {<<k, i>> : k \in {"insert", "attach"},
                      i \in 1..Cardinality(messages)}

\* the steps of session s
Step(s) ==
  \/ \E r \in Requests :
        Start(s, r.mailboxId, r.destination, r.messages)
  \/ \E ok \in BOOLEAN : RefreshSession(s, ok)
  \/ \E isOverQuota \in BOOLEAN : PreflightQuota(s, isOverQuota)
  \/ FindSource(s)
  \/ FindTarget(s)
  \/ AcquireLock(s)
  \/ AcquireLockFails(s)
  \/ \E fault \in AllFaults : SelectAndBatch(s, fault)
  \/ \E outcome \in ReleaseOutcomes(lockHolder) : ReleaseLock(s, outcome)
  \/ \E outcome \in QuotaCheckOutcomes : QuotaCheckEnds(s, outcome)
  \/ \E ok \in BOOLEAN : UpdateStorage(s, ok)
  \/ \E ok \in BOOLEAN : Notify(s, ok)

Next == \E s \in Sessions : Step(s)

Spec == Init /\ [][Next]_vars

----------------------------------------------------------------------------
(* One session copying into a mailbox of any kind *)

\* the retention policies a mailbox may have: none, or a number
Retentions == {<<>>, <<0>>, <<1>>, <<-1>>}

\* the special-use classifications a mailbox may have
SpecialUses == {"", "\\Junk", "\\Sent"}

\* the storage with mailbox B, the destination of the copies out of A, of
\* any retention and special use
InitTarget ==
  /\ messages = InitMessages
  /\ \E retention \in Retentions, specialUse \in SpecialUses :
       mailboxes = [InitMailboxes EXCEPT !["B"].retention = retention,
                                         !["B"].specialUse = specialUse]
  /\ attachments = InitAttachments
  /\ lockHolder = None
  /\ notifier = [entries |-> {}, fired |-> {}]
  /\ quotaCheck = [s \in Sessions |-> "none"]
  /\ sess = [s \in Sessions |-> IdleSession]
  /\ started = 0
  /\ wsp = FALSE
  /\ conn = [s \in Sessions |-> IdleConnection]
  /\ SmtpConstructed

\* the first session alone
NextSingle == Step("s1")

SpecTarget == InitTarget /\ [][NextSingle]_vars

----------------------------------------------------------------------------
(* One session of a server with or without this.wsp *)

\* the server is constructed with this.wsp or without it
InitPaths ==
  /\ messages = InitMessages
  /\ mailboxes = InitMailboxes
  /\ attachments = InitAttachments
  /\ lockHolder = None
  /\ notifier = [entries |-> {}, fired |-> {}]
  /\ quotaCheck = [s \in Sessions |-> "none"]
  /\ sess = [s \in Sessions |-> IdleSession]
  /\ started = 0
  /\ wsp \in BOOLEAN
  /\ conn = [s \in Sessions |-> IdleConnection]
  /\ SmtpConstructed

\* what the first session does: the steps of the lock-based path and the
\* steps of the remote path
NextPaths ==
  \/ Step("s1")
  \/ RemoteStep("s1")

SpecPaths == InitPaths /\ [][NextPaths]_vars

----------------------------------------------------------------------------
(* The SMTP server, smtp-server.js: errors *)

\* no error: the first argument of fn is absent or null
NoError == [message |-> None, responseCode |-> 0]

\* new ServerShutdownError(), lines 33-40
ServerShutdownError == [message |-> "Server shutting down", responseCode |-> 421]

\* new SMTPError(message, {responseCode}), lines 42-49: `options?.responseCode
\* || 550`
SMTPError(message, responseCode) ==
  [message |-> message,
   responseCode |-> IF responseCode # 0 THEN responseCode ELSE 550]

\* new Error(message): an error without a response code
Error(message) == [message |-> message, responseCode |-> 0]

\* getErrorCode(err) of helpers/get-error-code: the code the error carries,
\* or 550
getErrorCode(err) == IF err.responseCode # 0 THEN err.responseCode ELSE 550

\* refineAndLogError(err, session), lines 106-146, for an error that is no
\* programmer mistake: the same error with the code of getErrorCode
refineAndLogError(err) == [err EXCEPT !.responseCode = getErrorCode(err)]

----------------------------------------------------------------------------
(* The SMTP server: the account *)

\* Date.now(), line 78
Now == 1

\* a member of a domain: a user in good standing who is an admin
Admin(plan) ==
  [isBanned |-> FALSE, hasVerifiedEmail |-> TRUE, plan |-> plan,
   planExpiresAt |-> Now + 1, group |-> "admin"]

\* a domain with outbound SMTP access and one paying admin
GoodDomain ==
  [id |-> "d1", is_global |-> FALSE, smtp_suspended_sent_at |-> FALSE,
   has_smtp |-> TRUE, plan |-> "enhanced_protection",
   members |-> <<Admin("enhanced_protection")>>]

\* what Domains.findOne may find for the account's domain: nothing (<<>>),
\* or a row; smtp_suspended_sent_at says whether the column holds a date
DomainRows ==
  {<<>>,
   <<GoodDomain>>,
   <<[GoodDomain EXCEPT !.plan = "team", !.members = <<Admin("team")>>]>>,
   <<[GoodDomain EXCEPT !.is_global = TRUE]>>,
   <<[GoodDomain EXCEPT !.smtp_suspended_sent_at = TRUE]>>,
   <<[GoodDomain EXCEPT !.has_smtp = FALSE]>>,
   <<[GoodDomain EXCEPT !.plan = "team"]>>,
   <<[GoodDomain EXCEPT !.members =
        <<[Admin("team") EXCEPT !.planExpiresAt = Now - 1],
          [Admin("team") EXCEPT !.group = "user"]>>]>>}

\* an enabled alias with a generated password; a name is the list of its
\* characters
GoodAlias ==
  [id |-> "a1", name |-> <<"a", "l">>, is_enabled |-> TRUE,
   user |-> [isBanned |-> FALSE], tokens |-> 1]

\* what Aliases.findOne may find for the account's alias
AliasRows ==
  {<<>>,
   <<GoodAlias>>,
   <<[GoodAlias EXCEPT !.user = [isBanned |-> TRUE]]>>,
   <<[GoodAlias EXCEPT !.is_enabled = FALSE]>>,
   <<[GoodAlias EXCEPT !.name = <<"*">>]>>,
   <<[GoodAlias EXCEPT !.name = <<"/", "r", "/">>]>>,
   <<[GoodAlias EXCEPT !.tokens = 0]>>}

\* the plans an admin may be on, lines 68-69
validPlans(plan) ==
  IF plan = "team" THEN {"team"} ELSE {"team", "enhanced_protection"}

\* a validation that lets every domain that exists pass
validateDomainExists(domain) ==
  IF domain = <<>>
  THEN Error("Domain does not exist with current TXT verification record")
  ELSE NoError

\* validateDomain(domain), lines 51-85: the error it throws, or NoError
validateDomain(domain) ==
  IF domain = <<>>
  THEN Error("Domain does not exist with current TXT verification record")
  ELSE LET d == domain[1]
       IN  IF d.is_global THEN Error("Cannot send email from global domain")
           ELSE IF d.smtp_suspended_sent_at
           THEN Error("Domain is suspended from outbound SMTP access")
           ELSE IF ~d.has_smtp
           THEN Error("Domain does not have outbound SMTP access")
           ELSE IF ~\E i \in DOMAIN d.members :
                      /\ ~d.members[i].isBanned
                      /\ d.members[i].hasVerifiedEmail
                      /\ d.members[i].plan \in validPlans(d.plan)
                      /\ d.members[i].planExpiresAt >= Now
                      /\ d.members[i].group = "admin"
           THEN Error("Domain has past due balance or does not have at least one valid admin")
           ELSE NoError

\* validateAlias(alias), lines 87-103: the error it throws, or NoError
validateAlias(alias) ==
  IF alias = <<>> THEN Error("Alias does not exist")
  ELSE LET a == alias[1]
       IN  IF a.user.isBanned THEN Error("Alias user is banned")
           ELSE IF ~a.is_enabled THEN Error("Alias is disabled")
           ELSE IF a.name = <<"*">> THEN Error("Alias cannot be a catch-all")
           ELSE IF a.name[1] = "/" THEN Error("Alias cannot be a regex")
           ELSE NoError

----------------------------------------------------------------------------
(* The SMTP server: the handlers *)

\* the handler `name` at its entry
Fresh(name) == [IdleHandler EXCEPT !.name = name]

\* setImmediate(() => fn(err)): the handler ends with an error
FnErr(h, err) ==
  [h EXCEPT !.pc = "done",
            !.fn = Append(@, [err |-> err, response |-> <<>>])]

\* setImmediate(fn), or fn(null, response): the handler ends without error
FnOk(h, response) ==
  [h EXCEPT !.pc = "done",
            !.fn = Append(@, [err |-> NoError, response |-> response])]

\* the library calls a handler when the previous one has called back
CanEnter ==
  /\ handler.pc \in {"idle", "done"}
  /\ commands < MaxCommands

\* a server whose handlers do not look at the close timeout
NeverShuttingDown(ct) == FALSE

\* `if (this.server._closeTimeout)`, lines 153, 275, 357, 460, 487
ShuttingDown(ct) == ct

\* this.server.close() of the library sets the close timeout
Close ==
  /\ ~closeTimeout
  /\ closeTimeout' = TRUE
  /\ UNCHANGED <<session, db, handler, emails, signals, denylist, limiter,
                 commands>>
  /\ UNCHANGED imapVars

\* the account's domain and alias change in the database
AccountChanges(domain, alias) ==
  /\ commands < MaxCommands
  /\ db # [domain |-> domain, alias |-> alias]
  /\ db' = [domain |-> domain, alias |-> alias]
  /\ UNCHANGED <<closeTimeout, session, handler, emails, signals, denylist,
                 limiter, commands>>
  /\ UNCHANGED imapVars

\* onConnect is called, lines 272-283
OnConnect ==
  /\ CanEnter
  /\ commands' = commands + 1
  /\ IF ShuttingDown(closeTimeout)
     THEN /\ handler' = FnErr(Fresh("connect"), ServerShutdownError)
          /\ session' = session
     ELSE /\ handler' = [Fresh("connect") EXCEPT !.pc = "reverse",
                                                  !.did = {"reverse"}]
          /\ session' = [session EXCEPT !.arrivalDate = TRUE]
  /\ UNCHANGED <<closeTimeout, db, emails, signals, denylist, limiter>>
  /\ UNCHANGED imapVars

\* the keys onConnect looks at and sets, lines 312-323 and 337-338
Keys(h) == IF h.root THEN {"ip", "root"} ELSE {"ip"}

\* await this.resolver.reverse(...) ends, lines 283-325: with a host name
\* that is a FQDN or not (or an error, which is ignored)
ReverseEnds(fqdn) ==
  /\ handler.name = "connect" /\ handler.pc = "reverse"
  /\ handler' = [handler EXCEPT !.pc = "mget", !.root = fqdn,
                                !.did = @ \cup {"mget"}]
  /\ UNCHANGED <<closeTimeout, session, db, emails, signals, denylist,
                 limiter, commands>>
  /\ UNCHANGED imapVars

\* await this.client.mget(arr) ends, lines 325-332: `listed` says whether a
\* backscatter or silent key is set
MgetEnds(listed) ==
  /\ handler.name = "connect" /\ handler.pc = "mget"
  /\ IF listed \/ denylist \cap Keys(handler) # {}
     THEN /\ handler' = FnErr(handler, refineAndLogError(
                                          SMTPError("Try again later", 0)))
          /\ limiter' = limiter
     ELSE /\ handler' = [handler EXCEPT !.pc = "limiter",
                                        !.did = @ \cup {"limiter"}]
          /\ limiter' = limiter + 1
  /\ UNCHANGED <<closeTimeout, session, db, emails, signals, denylist,
                 commands>>
  /\ UNCHANGED imapVars

\* await this.rateLimiter.get(...) ends, lines 330-351
LimiterEnds(remaining) ==
  /\ handler.name = "connect" /\ handler.pc = "limiter"
  /\ IF remaining = 0
     THEN /\ denylist' = denylist \cup Keys(handler)
          /\ handler' = FnErr([handler EXCEPT !.did = @ \cup {"denylist"}],
                              refineAndLogError(
                                SMTPError("Try again later", 0)))
     ELSE /\ denylist' = denylist
          /\ handler' = FnOk(handler, <<>>)
  /\ UNCHANGED <<closeTimeout, session, db, emails, signals, limiter,
                 commands>>
  /\ UNCHANGED imapVars

\* the error onAuth gives for whatever was thrown, lines 436-454
InvalidLogin ==
  refineAndLogError(SMTPError("Invalid username or password", 535))

\* onAuth is called, lines 354-384: wellFormed says whether the user name is
\* an email address and the password a string of at most 128 characters
OnAuth(wellFormed) ==
  /\ CanEnter
  /\ commands' = commands + 1
  /\ handler' =
       IF ShuttingDown(closeTimeout)
       THEN FnErr(Fresh("auth"), ServerShutdownError)
       ELSE IF ~wellFormed THEN FnErr(Fresh("auth"), InvalidLogin)
       ELSE [Fresh("auth") EXCEPT !.pc = "resolveTxt",
                                  !.did = {"resolveTxt"}]
  /\ UNCHANGED <<closeTimeout, session, db, emails, signals, denylist,
                 limiter>>
  /\ UNCHANGED imapVars

\* await this.resolver.resolveTxt(domainName) ends, lines 384-407, with this
\* many verification records
TxtEnds(verifications) ==
  /\ handler.name = "auth" /\ handler.pc = "resolveTxt"
  /\ handler' =
       IF verifications # 1 THEN FnErr(handler, InvalidLogin)
       ELSE [handler EXCEPT !.pc = "findDomain",
                            !.did = @ \cup {"findDomain"}]
  /\ UNCHANGED <<closeTimeout, session, db, emails, signals, denylist,
                 limiter, commands>>
  /\ UNCHANGED imapVars

\* await Domains.findOne(...) ends, lines 397-418
DomainFound ==
  /\ handler.name = "auth" /\ handler.pc = "findDomain"
  /\ handler' =
       IF validateDomain(db.domain) # NoError
       THEN FnErr(handler, InvalidLogin)
       ELSE [handler EXCEPT !.pc = "findAlias", !.domain = db.domain,
                            !.did = @ \cup {"findAlias"}]
  /\ UNCHANGED <<closeTimeout, session, db, emails, signals, denylist,
                 limiter, commands>>
  /\ UNCHANGED imapVars

\* await Aliases.findOne(...) ends, lines 412-454: the alias is validated and
\* the password compared; fn is given the user, which the library stores as
\* session.user
AliasFound(isValidPassword) ==
  /\ handler.name = "auth" /\ handler.pc = "findAlias"
  /\ LET ok == /\ validateAlias(db.alias) = NoError
               /\ db.alias[1].tokens > 0
               /\ isValidPassword
         user == [alias_id |-> db.alias[1].id,
                  domain_id |-> handler.domain[1].id]
     IN  IF ok
         THEN /\ handler' = FnOk([handler EXCEPT !.alias = db.alias],
                                 <<[user |-> user]>>)
              /\ session' = [session EXCEPT !.user = <<user>>]
         ELSE /\ handler' = FnErr(handler, InvalidLogin)
              /\ session' = session
  /\ UNCHANGED <<closeTimeout, db, emails, signals, denylist, limiter,
                 commands>>
  /\ UNCHANGED imapVars

\* the error for an address that is not an email address, lines 469-479
InvalidAddress ==
  refineAndLogError(
    SMTPError("Address is not a valid RFC 5321 email address", 553))

\* onMailFrom is called, lines 457-482
OnMailFrom(isEmail) ==
  /\ CanEnter
  /\ commands' = commands + 1
  /\ handler' =
       IF ShuttingDown(closeTimeout)
       THEN FnErr(Fresh("mailFrom"), ServerShutdownError)
       ELSE IF ~isEmail THEN FnErr(Fresh("mailFrom"), InvalidAddress)
       ELSE FnOk(Fresh("mailFrom"), <<>>)
  /\ UNCHANGED <<closeTimeout, session, db, emails, signals, denylist,
                 limiter>>
  /\ UNCHANGED imapVars

\* onRcptTo is called, lines 484-526: full says whether the envelope has
\* config.maxRecipients recipients
OnRcptTo(full, isEmail) ==
  /\ CanEnter
  /\ commands' = commands + 1
  /\ handler' =
       IF ShuttingDown(closeTimeout)
       THEN FnErr(Fresh("rcptTo"), ServerShutdownError)
       ELSE IF full
       THEN FnErr(Fresh("rcptTo"),
                  refineAndLogError(SMTPError("Too many recipients", 452)))
       ELSE IF ~isEmail THEN FnErr(Fresh("rcptTo"), InvalidAddress)
       ELSE FnOk(Fresh("rcptTo"), <<>>)
  /\ UNCHANGED <<closeTimeout, session, db, emails, signals, denylist,
                 limiter>>
  /\ UNCHANGED imapVars

\* onData is called, lines 152-165: the session is cloned and the stream is
\* read
OnData ==
  /\ CanEnter
  /\ commands' = commands + 1
  /\ handler' =
       IF ShuttingDown(closeTimeout)
       THEN FnErr(Fresh("data"), ServerShutdownError)
       ELSE [Fresh("data") EXCEPT !.pc = "stream", !.user = session.user,
                                  !.did = {"stream"}]
  /\ UNCHANGED <<closeTimeout, session, db, emails, signals, denylist,
                 limiter>>
  /\ UNCHANGED imapVars

\* lines 174-178: session.user is an object whose alias_id and domain_id are
\* strings
IsAuthenticated(user) ==
  /\ user # <<>>
  /\ user[1].alias_id # None
  /\ user[1].domain_id # None

\* the error of a stream that fails or is longer than MAX_BYTES
StreamError == Error("maxBuffer exceeded")

\* await getStream.buffer(stream, ...) ends, lines 163-198: the message was
\* read, or the stream failed or was longer than MAX_BYTES
StreamEnds(ok) ==
  /\ handler.name = "data" /\ handler.pc = "stream"
  /\ handler' =
       IF ~ok THEN FnErr(handler, refineAndLogError(StreamError))
       ELSE IF ~IsAuthenticated(handler.user)
       THEN FnErr(handler,
                  refineAndLogError(
                    SMTPError("Error: authentication Required", 530)))
       ELSE [handler EXCEPT !.pc = "lookup",
                            !.did = @ \cup {"findAlias", "findDomain"}]
  /\ UNCHANGED <<closeTimeout, session, db, emails, signals, denylist,
                 limiter, commands>>
  /\ UNCHANGED imapVars

\* Aliases.findOne({id}) and Domains.findOne({id, plan: {$ne: 'free'}})
FindOne(row, id) == IF row # <<>> /\ row[1].id = id THEN row ELSE <<>>

\* await Promise.all([...]) ends, lines 186-242: the rows are validated and
\* Emails.queue is called
DataLookups ==
  /\ handler.name = "data" /\ handler.pc = "lookup"
  /\ LET alias == FindOne(db.alias, handler.user[1].alias_id)
         domain == FindOne(db.domain, handler.user[1].domain_id)
     IN  handler' =
           IF validateDomain(domain) # NoError
           THEN FnErr(handler, refineAndLogError(validateDomain(domain)))
           ELSE IF validateAlias(alias) # NoError
           THEN FnErr(handler, refineAndLogError(validateAlias(alias)))
           ELSE [handler EXCEPT !.pc = "queue", !.alias = alias,
                                !.domain = domain,
                                !.did = @ \cup {"queue"}]
  /\ UNCHANGED <<closeTimeout, session, db, emails, signals, denylist,
                 limiter, commands>>
  /\ UNCHANGED imapVars

\* what `this?.bree?.workers?.get('send-emails')` and its postMessage may do
Workers == {"running", "throws", "absent"}

\* await Emails.queue(...) ends, lines 233-269: the email is stored and the
\* worker is sent its id, or Emails.queue throws
QueueEnds(ok, worker) ==
  /\ handler.name = "data" /\ handler.pc = "queue"
  /\ worker \in Workers
  /\ IF ok
     THEN /\ emails' = emails + 1
          /\ signals' = IF worker = "running" THEN signals + 1 ELSE signals
          /\ handler' = FnOk([handler EXCEPT !.did =
                                IF worker = "absent" THEN @
                                ELSE @ \cup {"postMessage"}], <<>>)
     ELSE /\ emails' = emails
          /\ signals' = signals
          /\ handler' = FnErr(handler, refineAndLogError(Error("queue")))
  /\ UNCHANGED <<closeTimeout, session, db, denylist, limiter, commands>>
  /\ UNCHANGED imapVars

\* the steps of the SMTP server and of what is around it
SmtpStep ==
  \/ Close
  \/ \E domain \in DomainRows, alias \in AliasRows :
        AccountChanges(domain, alias)
  \/ OnConnect
  \/ \E fqdn \in BOOLEAN : ReverseEnds(fqdn)
  \/ \E listed \in BOOLEAN : MgetEnds(listed)
  \/ \E remaining \in {0, 1} : LimiterEnds(remaining)
  \/ \E wellFormed \in BOOLEAN : OnAuth(wellFormed)
  \/ \E verifications \in 0..2 : TxtEnds(verifications)
  \/ DomainFound
  \/ \E isValidPassword \in BOOLEAN : AliasFound(isValidPassword)
  \/ \E isEmail \in BOOLEAN : OnMailFrom(isEmail)
  \/ \E full, isEmail \in BOOLEAN : OnRcptTo(full, isEmail)
  \/ OnData
  \/ \E ok \in BOOLEAN : StreamEnds(ok)
  \/ DataLookups
  \/ \E ok \in BOOLEAN, worker \in Workers : QueueEnds(ok, worker)

\* the SMTP server with an account whose domain and alias are in any state
InitSmtp ==
  /\ messages = InitMessages
  /\ mailboxes = InitMailboxes
  /\ attachments = InitAttachments
  /\ lockHolder = None
  /\ notifier = [entries |-> {}, fired |-> {}]
  /\ quotaCheck = [s \in Sessions |-> "none"]
  /\ sess = [s \in Sessions |-> IdleSession]
  /\ started = 0
  /\ wsp = FALSE
  /\ conn = [s \in Sessions |-> IdleConnection]
  /\ closeTimeout = FALSE
  /\ session = [user |-> <<>>, arrivalDate |-> FALSE]
  /\ db \in [domain : DomainRows, alias : AliasRows]
  /\ handler = IdleHandler
  /\ emails = 0
  /\ signals = 0
  /\ denylist = {}
  /\ limiter = 0
  /\ commands = 0

NextSmtp == SmtpStep

SpecSmtp == InitSmtp /\ [][NextSmtp]_vars

----------------------------------------------------------------------------
(* What the claims speak of *)

\* the sessions whose invocation has called back with the success result
Succeeded(s) ==
  /\ sess[s].pc = "done"
  /\ Len(sess[s].fn) > 0
  /\ sess[s].fn[Len(sess[s].fn)].ok

Response(s) == sess[s].fn[Len(sess[s].fn)].response

StrictlyIncreasing(q) == \A i, j \in DOMAIN q : i < j => q[i] < q[j]

\* session s takes the step of lines 131-276 (select and batch)
BatchStep(s) == sess[s].pc = "batch" /\ sess'[s].pc # "batch"

\* ... and the batch has committed, or thrown
BatchCommits(s) == BatchStep(s) /\ sess'[s].err = None

BatchFails(s) == BatchStep(s) /\ sess'[s].err # None

\* the rows a step has added to Messages
NewRows == {m \in messages' : \A o \in messages : o.id # m.id}

----------------------------------------------------------------------------
(* C1: after any interleaving of COPY operations of concurrent sessions on
   the same account, no two message rows of the same mailbox carry the same
   UID. *)
C1_UniqueUidPerMailbox ==
  \A m1, m2 \in messages :
    (m1.mailbox = m2.mailbox /\ m1.uid = m2.uid) => m1.id = m2.id

(* C2: in every reachable state the persisted uidNext of every mailbox is
   strictly greater than every UID assigned to a message of that mailbox. *)
C2_UidNextAboveEveryUid ==
  \A m \in messages : mailboxes[m.mailbox].uidNext > m.uid

(* C3: for every successful COPY of at least one row the returned
   destinationUids list is strictly increasing and the returned sourceUids
   list is in ascending source-UID order. *)
C3_ReturnedListsAscending ==
  \A s \in Sessions :
    (Succeeded(s) /\ Len(Response(s).sourceUid) > 0) =>
      /\ StrictlyIncreasing(Response(s).destinationUid)
      /\ \A i, j \in DOMAIN Response(s).sourceUid :
           i < j => Response(s).sourceUid[i] <= Response(s).sourceUid[j]

\* session s calls fn with the success result
CallsBackSuccess(s) ==
  /\ sess[s].pc # "done"
  /\ sess'[s].pc = "done"
  /\ sess'[s].fn[Len(sess'[s].fn)].ok

Returns(s) == sess'[s].fn[Len(sess'[s].fn)].response

(* C4: for every successful COPY the returned lists pair each source UID
   with the UID of its copy, and the pairing preserves order: of two copied
   rows the one with the smaller source UID has the smaller destination
   UID. *)
C4_OrderPreserved ==
  [][\A s \in Sessions : CallsBackSuccess(s) =>
       LET src == Returns(s).sourceUid
           dst == Returns(s).destinationUid
       IN  /\ DOMAIN src = DOMAIN dst
           /\ \A i, j \in DOMAIN src : src[i] < src[j] => dst[i] < dst[j]
           /\ \A i \in DOMAIN src :
                \E r, c \in messages :
                  /\ r.mailbox = sess[s].mailbox.id /\ r.uid = src[i]
                  /\ c.mailbox = sess[s].targetMailbox.id /\ c.uid = dst[i]
                  /\ c.id # r.id /\ c.body = r.body
                  /\ c.transaction = "COPY"]_vars

C4_Witness ==
  \E s \in Sessions :
    /\ Succeeded(s)
    /\ \E i, j \in DOMAIN Response(s).sourceUid :
         Response(s).sourceUid[i] < Response(s).sourceUid[j]

(* C5: for every successful COPY the returned destinationUids and sourceUids
   have the same length, which is copiedMessages, the number of rows the
   batch inserted into the destination mailbox. *)
C5_LengthsEqualCopied ==
  [][\A s \in Sessions :
       /\ BatchCommits(s) =>
            /\ \A m \in NewRows : m.mailbox = sess[s].targetMailbox.id
            /\ Cardinality(NewRows) = sess'[s].copiedMessages
            /\ Cardinality(messages') =
                 Cardinality(messages) + sess'[s].copiedMessages
       /\ CallsBackSuccess(s) =>
            /\ Len(Returns(s).destinationUid) = sess[s].copiedMessages
            /\ Len(Returns(s).sourceUid) = sess[s].copiedMessages]_vars

C5_Witness ==
  \E s \in Sessions : Succeeded(s) /\ Len(Response(s).destinationUid) >= 2

(* C6: for every successful COPY the persisted uidNext of the destination
   mailbox after the operation is its persisted value before the operation
   plus the number of messages copied (unchanged when no row matched). *)
C6_UidNextAdvancesByCopied ==
  [][\A s \in Sessions : BatchCommits(s) =>
       mailboxes'[sess[s].targetMailbox.id].uidNext =
         mailboxes[sess[s].targetMailbox.id].uidNext
           + sess'[s].copiedMessages]_vars

(* C7: when the transactional batch fails at any statement, the message
   rows, the attachment counters, the copied markers and uidNext are as
   before the operation, and stay so until the caller is given the error. *)
C7_FailedBatchChangesNothing ==
  [][\A s \in Sessions :
       /\ BatchFails(s) =>
            /\ messages' = messages
            /\ attachments' = attachments
            /\ mailboxes' = mailboxes
            /\ sess'[s].pc = "release"
       /\ (sess[s].pc = "release" /\ sess[s].err # None) =>
            /\ messages' = messages
            /\ attachments' = attachments
            /\ mailboxes' = mailboxes
            /\ sess'[s].pc # "release" =>
                 /\ sess'[s].pc = "done"
                 /\ sess'[s].fn =
                      <<[err |-> sess[s].err, ok |-> FALSE,
                         response |-> NoResponse]>>]_vars

\* a batch that threw after its first row was inserted
C7_Witness ==
  \E s \in Sessions :
    /\ sess[s].pc = "release"
    /\ sess[s].err = "STORAGE"
    /\ Len(sess[s].sourceUid) >= 2

(* C8 as stated: every COPY invocation that acquires the lock releases it
   exactly once before its outcome is reported, and no invocation leaves the
   lock held after it has called back. *)
C8_ReleasedOnceAndFree ==
  \A s \in Sessions :
    (sess[s].pc = "done" /\ sess[s].lock) =>
      /\ sess[s].releases = 1
      /\ lockHolder # s

(* C8 as amended: every COPY invocation that acquires the lock calls
   releaseLock exactly once before any post-commit step and before its
   outcome is reported, after a committed and after a failed batch alike (an
   invocation that did not get the lock never calls it); the lock is still
   held after the callback only when that release call itself failed, which
   is logged. *)
C8_ReleaseAttemptedOnce ==
  \A s \in Sessions :
    /\ (sess[s].pc \in {"storage", "notify", "done"} /\ sess[s].lock) =>
         /\ sess[s].releases = 1
         /\ lockHolder = s => "releaseLock" \in sess[s].fatal
    /\ ~sess[s].lock => sess[s].releases = 0
    /\ sess[s].pc \in {"acquire", "batch"} => sess[s].releases = 0

\* an invocation that got the lock, whose batch failed, and that has reported
C8_Witness ==
  \E s \in Sessions :
    /\ sess[s].pc = "done"
    /\ sess[s].lock
    /\ sess[s].releases = 1
    /\ ~sess[s].fn[1].ok
    /\ sess[s].fn[1].err = "STORAGE"

\* session s is between its lock acquisition and its lock release
InSection(s) == sess[s].pc \in {"batch", "release"}

(* C9: at no time are two COPY operations on the account both between their
   lock acquisition and their lock release (each of them holds the lock), so
   no two transactional batches overlap. *)
C9_MutualExclusion ==
  \A s1, s2 \in Sessions :
    /\ (s1 # s2 /\ InSection(s1)) => ~InSection(s2)
    /\ InSection(s1) => lockHolder = s1

\* one session is in the guarded section while another waits for the lock
C9_Witness ==
  \E s1, s2 \in Sessions :
    /\ s1 # s2
    /\ sess[s1].pc = "batch"
    /\ sess[s2].pc = "acquire"

(* C10: after a successful COPY the counter of every attachment hash is its
   value before plus the number of copied messages whose body tree refers to
   the hash, a message counting once however often the hash occurs in it. *)
C10_CounterOncePerMessage ==
  [][\A s \in Sessions : BatchCommits(s) =>
       \A h \in DOMAIN attachments :
         attachments'[h].counter =
           attachments[h].counter
             + Cardinality({m \in NewRows :
                              \E k \in DOMAIN m.mimeTree : m.mimeTree[k] = h})]_vars

\* a committed batch that copied a message in which a hash occurs twice
C10_Witness ==
  \E s \in Sessions :
    /\ sess[s].pc = "release"
    /\ sess[s].err = None
    /\ \E m \in messages :
         /\ m.transaction = "COPY"
         /\ m.mailbox = sess[s].targetMailbox.id
         /\ m.uid \in Range(sess[s].destinationUid)
         /\ \E k1, k2 \in DOMAIN m.mimeTree :
              k1 # k2 /\ m.mimeTree[k1] = m.mimeTree[k2]
                      /\ m.mimeTree[k1] \in DOMAIN attachments

----------------------------------------------------------------------------
(* Validation failures *)

\* session s takes the step in which its validation fails: the pre-flight
\* check says over quota, or a mailbox is not found
ValidationFails(s) ==
  /\ sess[s].pc \in {"quota", "findSource", "findTarget"}
  /\ sess'[s].pc = "done"

\* the error kind each validation step reports
ValidationError(pc) ==
  IF pc = "quota" THEN "OVERQUOTA"
  ELSE IF pc = "findSource" THEN "NONEXISTENT" ELSE "TRYCREATE"

\* the three tables are left as they are by a step
StorageUnchanged ==
  /\ messages' = messages
  /\ mailboxes' = mailboxes
  /\ attachments' = attachments

(* C11: when a COPY fails validation before the transactional section (over
   quota at the pre-flight check, source mailbox missing, destination mailbox
   missing), acquireLock has not been called and is not called, no row of the
   storage changes, the invocation ends there (no release, no post-flight
   check, no storage refresh, no notification) and the caller is given the
   error; and a missing mailbox does fail the validation. *)
C11_ValidationFailureAcquiresNothing ==
  [][\A s \in Sessions :
       /\ ValidationFails(s) =>
            /\ sess[s].acquires = 0
            /\ sess'[s].acquires = 0
            /\ sess'[s].releases = 0
            /\ ~sess'[s].lock
            /\ sess'[s].fatal = {}
            /\ lockHolder' = lockHolder
            /\ StorageUnchanged
            /\ notifier' = notifier
            /\ quotaCheck' = quotaCheck
            /\ sess'[s].fn = <<[err |-> ValidationError(sess[s].pc),
                                ok |-> FALSE, response |-> NoResponse]>>
       /\ ( /\ sess'[s] # sess[s]
            /\ \/ /\ sess[s].pc = "findSource"
                  /\ sess[s].mailboxId \notin DOMAIN mailboxes
               \/ /\ sess[s].pc = "findTarget"
                  /\ \A b \in DOMAIN mailboxes :
                        mailboxes[b].path # sess[s].update.destination )
            => ValidationFails(s)]_vars

\* a COPY has ended at a missing destination while the other session has
\* copied rows
C11_Witness ==
  \E s \in Sessions :
    /\ sess[s].pc = "done"
    /\ sess[s].fn[1].err = "TRYCREATE"
    /\ sess[s].acquires = 0
    /\ \E m \in messages : m.transaction = "COPY"

----------------------------------------------------------------------------
(* The post-flight quota check *)

\* a step starts the post-flight check of session s
QuotaCheckStarts(s) ==
  quotaCheck[s] # "pending" /\ quotaCheck'[s] = "pending"

\* a step in which the post-flight check of session s settles
QuotaCheckSettles(s) ==
  quotaCheck[s] = "pending" /\ quotaCheck'[s] # "pending"

(* C12: the post-flight quota check is started only after a commit that
   copied at least one message and one byte; when it settles, whether under
   quota, over quota or by failing, no row, counter or uidNext changes (nothing
   is rolled back) and no session's result or position changes, so the caller
   has or gets the same result; and the handler goes on and calls back while
   the check is still pending. *)
C12_PostflightChangesNothing ==
  [][\A s \in Sessions :
       /\ QuotaCheckStarts(s) =>
            /\ sess[s].pc \in {"batch", "release"}
            /\ sess'[s].pc = "storage"
            /\ sess'[s].err = None
            /\ sess'[s].copiedMessages > 0
            /\ sess'[s].copiedStorage > 0
       /\ QuotaCheckSettles(s) =>
            /\ StorageUnchanged
            /\ sess' = sess
            /\ notifier' = notifier
            /\ lockHolder' = lockHolder
       /\ (quotaCheck[s] = "pending" /\ sess[s].pc = "storage") =>
            ENABLED UpdateStorage(s, TRUE)
       /\ (quotaCheck[s] = "pending" /\ sess[s].pc = "notify") =>
            ENABLED Notify(s, TRUE)]_vars

\* a COPY has returned its success result and its post-flight check has
\* logged an over-quota alert or its own failure; the copies are there
C12_Witness ==
  \E s \in Sessions :
    /\ Succeeded(s)
    /\ Len(Response(s).destinationUid) > 0
    /\ quotaCheck[s] = "fatal"
    /\ \E m \in messages : m.transaction = "COPY"

----------------------------------------------------------------------------
(* Change notifications *)

\* the entry names a row that is in the table Messages, made by a COPY
Committed(e) ==
  \E m \in messages :
    /\ m.id = e.message
    /\ m.uid = e.uid
    /\ m.mailbox = e.mailbox
    /\ m.transaction = "COPY"

(* C13: the notifier is touched only by a COPY whose batch has committed:
   the step that adds entries and fires the wake-up is taken by a session
   past its release with no error, it publishes exactly that session's
   entries, each naming a committed row, and fires for its destination; a
   session whose batch failed never reaches the post-commit steps, so its
   entries are never published and no wake-up is fired for it. *)
C13_PublishedOnlyAfterCommit ==
  [][/\ notifier' # notifier =>
          \E s \in Sessions :
            /\ sess[s].pc = "notify"
            /\ sess[s].err = None
            /\ sess[s].releases = 1
            /\ \A e \in Range(sess[s].entries) : Committed(e)
            /\ notifier'.entries =
                 notifier.entries \cup Range(sess[s].entries)
            /\ notifier'.fired =
                 notifier.fired \cup {sess[s].update.destination}
     /\ \A s \in Sessions :
          /\ sess[s].pc \in {"storage", "notify"} => sess[s].err = None
          /\ BatchFails(s) =>
               /\ notifier' = notifier
               /\ sess'[s].pc \in {"release", "done"}
          /\ (sess[s].pc = "release" /\ sess[s].err # None
                /\ sess'[s] # sess[s]) =>
               /\ notifier' = notifier
               /\ sess'[s].pc = "done"]_vars

\* one COPY has published its entries and another, whose batch failed after
\* it had made an entry, has ended
C13_Witness ==
  /\ notifier.entries # {}
  /\ notifier.fired # {}
  /\ \E s \in Sessions :
       /\ sess[s].pc = "done"
       /\ sess[s].fn[1].err = "STORAGE"

----------------------------------------------------------------------------
(* Missing mailboxes *)

\* no mailbox has the identifier the COPY of session s names as its source
SourceMissing(s) == sess[s].mailboxId \notin DOMAIN mailboxes

\* no mailbox has the path the COPY of session s names as its destination
DestinationMissing(s) ==
  \A b \in DOMAIN mailboxes : mailboxes[b].path # sess[s].update.destination

\* session s calls fn in a step
CallsBack(s) == sess[s].pc # "done" /\ sess'[s].pc = "done"

\* the error, if any, of the callback session s makes in a step
Reported(s) ==
  IF CallsBack(s) THEN sess'[s].fn[Len(sess'[s].fn)].err ELSE None

(* C14: once the session is refreshed and under quota, a COPY whose source
   identifier does not resolve fails with NONEXISTENT, also when its
   destination does not resolve either, and a COPY whose source resolves and
   whose destination path does not fails with TRYCREATE; the two kinds are
   reported in no other case. *)
C14_MissingMailboxKinds ==
  [][\A s \in Sessions :
       /\ (sess[s].pc = "findSource" /\ sess'[s] # sess[s]) =>
            IF SourceMissing(s)
            THEN Reported(s) = "NONEXISTENT"
            ELSE sess'[s].pc = "findTarget"
       /\ (sess[s].pc = "findTarget" /\ sess'[s] # sess[s]) =>
            /\ ~SourceMissing(s)
            /\ IF DestinationMissing(s)
               THEN Reported(s) = "TRYCREATE"
               ELSE sess'[s].pc = "acquire"
       /\ Reported(s) = "NONEXISTENT" =>
            sess[s].pc = "findSource" /\ SourceMissing(s)
       /\ Reported(s) = "TRYCREATE" =>
            /\ sess[s].pc = "findTarget"
            /\ ~SourceMissing(s)
            /\ DestinationMissing(s)]_vars

\* a COPY that names a source and a destination that both do not exist (the
\* only request here with a missing source) has been answered NONEXISTENT,
\* and a COPY with only its destination missing TRYCREATE
C14_Witness ==
  \E s1, s2 \in Sessions :
    /\ sess[s1].pc = "done"
    /\ sess[s1].fn[1].err = "NONEXISTENT"
    /\ sess[s2].pc = "done"
    /\ sess[s2].fn[1].err = "TRYCREATE"

----------------------------------------------------------------------------
(* A COPY that matches no row *)

\* the select of session s, were it run now, matches no row
ZeroMatch(s) ==
  Matching(messages, sess[s].mailbox.id, sess[s].update.messages) = {}

\* session s is past a guarded section that did not throw and copied nothing
CopiedNothing(s) ==
  /\ sess[s].pc \in {"release", "storage"}
  /\ sess[s].err = None
  /\ sess[s].copiedMessages = 0

(* C15: a COPY whose select matches no row holds the lock while it selects
   and calls releaseLock once; it changes no row of the storage, uidNext of
   the destination included, counts zero messages and zero bytes, starts no
   post-flight check, publishes nothing, and calls back with the success
   result and empty sourceUid and destinationUid lists. *)
C15_ZeroMatchSucceedsEmpty ==
  [][\A s \in Sessions :
       /\ (BatchCommits(s) /\ ZeroMatch(s)) =>
            /\ sess[s].lock /\ lockHolder = s
            /\ StorageUnchanged
            /\ sess'[s].pc = "release"
            /\ sess'[s].releases = 1
            /\ sess'[s].copiedMessages = 0
            /\ sess'[s].copiedStorage = 0
            /\ sess'[s].sourceUid = <<>>
            /\ sess'[s].destinationUid = <<>>
            /\ sess'[s].entries = <<>>
       /\ (BatchCommits(s) /\ sess'[s].copiedMessages = 0) => ZeroMatch(s)
       /\ (CopiedNothing(s) /\ sess'[s] # sess[s]) =>
            /\ StorageUnchanged
            /\ notifier' = notifier
            /\ quotaCheck'[s] = "none"
            /\ IF sess[s].pc = "release"
               THEN sess'[s].pc = "storage"
               ELSE /\ CallsBackSuccess(s)
                    /\ Returns(s).sourceUid = <<>>
                    /\ Returns(s).destinationUid = <<>>
                    /\ Returns(s).uidValidity =
                         sess[s].targetMailbox.uidValidity
                    /\ sess'[s].releases = 1]_vars

\* a COPY that matched nothing has succeeded, its release call made and the
\* lock free again
C15_Witness ==
  \E s \in Sessions :
    /\ Succeeded(s)
    /\ Response(s).sourceUid = <<>>
    /\ Response(s).destinationUid = <<>>
    /\ sess[s].lock
    /\ sess[s].releases = 1
    /\ lockHolder = None

----------------------------------------------------------------------------
(* The rewritten columns of a copy *)

\* the rows made by a COPY
Copies == {m \in messages : m.transaction = "COPY"}

\* the row o is the row that m was copied from
SourceOf(m, o) ==
  /\ o.mailbox # m.mailbox
  /\ o.body = m.body
  /\ o.copied

(* C16: every row made by a COPY has its junk flag set when the mailbox it
   is in has the special use \Junk and cleared when it has any other or
   none, whatever the flag of the row it was copied from. *)
C16_JunkFollowsDestination ==
  \A m \in Copies : m.junk = (mailboxes[m.mailbox].specialUse = "\\Junk")

\* a row without the flag was copied into the \Junk mailbox B, and that copy,
\* flagged, was copied into mailbox A, which is not \Junk
C16_Witness ==
  \E m, o, n \in messages :
    /\ m \in Copies /\ n \in Copies
    /\ SourceOf(m, o) /\ SourceOf(n, m)
    /\ mailboxes[m.mailbox].specialUse = "\\Junk"
    /\ ~o.junk /\ m.junk /\ ~n.junk

\* the retention policy is a positive duration
Positive(retention) == Len(retention) = 1 /\ retention[1] > 0

(* C17: a row made by a COPY has its expiry flag set if and only if the
   retention policy of the mailbox it is in is a positive duration; zero, no
   retention and a negative number leave it unset. *)
C17_ExpiryOnlyForPositiveRetention ==
  \A m \in Copies : (m.exp = 1) <=> Positive(mailboxes[m.mailbox].retention)

----------------------------------------------------------------------------
(* Failures after the commit, of the lock and of its release *)

\* session s is past a batch that committed (or had nothing to copy)
PastCommit(s) ==
  /\ sess[s].pc \in {"release", "storage", "notify"}
  /\ sess[s].err = None

(* C18: once the batch of a COPY has committed, no failure of a later step
   (lock release, post-flight quota check, storage refresh, notification
   publish) is reported to the caller: the invocation goes on through the
   post-commit steps and its callback carries the success result. *)
C18_NoErrorAfterCommit ==
  [][\A s \in Sessions :
       (PastCommit(s) /\ sess'[s] # sess[s]) =>
         IF CallsBack(s)
         THEN sess'[s].fn[Len(sess'[s].fn)].ok
         ELSE PastCommit(s)']_vars

\* session s takes the step in which its acquireLock fails
AcquireFails(s) ==
  /\ sess[s].pc = "acquire"
  /\ sess'[s] # sess[s]
  /\ ~sess'[s].lock

(* C19: when acquireLock fails or times out, the COPY ends in that step with
   the error given to the caller: the select and the batch do not run, no row
   of the storage changes, releaseLock is not called for the lock that was
   not obtained, and no post-flight check, storage refresh or notification
   follows. *)
C19_LockFailureEndsCopy ==
  [][\A s \in Sessions :
       AcquireFails(s) =>
         /\ CallsBack(s)
         /\ sess'[s].fn = <<[err |-> "LOCK", ok |-> FALSE,
                             response |-> NoResponse]>>
         /\ sess'[s].acquires = 1
         /\ sess'[s].releases = 0
         /\ sess'[s].fatal = {}
         /\ StorageUnchanged
         /\ lockHolder' = lockHolder
         /\ notifier' = notifier
         /\ quotaCheck' = quotaCheck]_vars

\* a COPY has ended at a failed acquireLock while the other session holds
\* the lock
C19_Witness ==
  \E s1, s2 \in Sessions :
    /\ sess[s1].pc = "done"
    /\ sess[s1].fn[1].err = "LOCK"
    /\ sess[s1].releases = 0
    /\ lockHolder = s2
    /\ sess[s2].pc = "batch"

\* session s takes the step in which its releaseLock call ends
ReleaseStep(s) == sess[s].pc = "release" /\ sess'[s] # sess[s]

(* C20: a failure of releaseLock is logged and changes nothing else: after
   a batch that committed the invocation goes on to its post-commit steps
   with no error, and the caller's result is never the release error (it is
   the success result unless the notifier fails); after a batch that failed
   the caller is given the batch's own error in the same step. *)
C20_ReleaseFailureOnlyLogged ==
  [][\A s \in Sessions :
       /\ ReleaseStep(s) =>
            /\ IF sess[s].err = None
               THEN sess'[s].pc = "storage" /\ sess'[s].err = None
               ELSE /\ CallsBack(s)
                    /\ sess'[s].fn = <<[err |-> sess[s].err, ok |-> FALSE,
                                        response |-> NoResponse]>>
            /\ lockHolder' = s => "releaseLock" \in sess'[s].fatal
            /\ sess'[s].fatal \in {sess[s].fatal,
                                   sess[s].fatal \cup {"releaseLock"}}
       /\ (CallsBack(s) /\ "releaseLock" \in sess[s].fatal) =>
            IF sess[s].pc = "storage"
            THEN CallsBackSuccess(s)
            ELSE sess[s].pc = "notify" /\ Reported(s) \in {None, "NOTIFIER"}]_vars

\* the release of one COPY failed after its commit and it has returned the
\* success result; the release of another failed after its batch had failed
\* and it has returned the batch's error
C20_Witness ==
  \E s1, s2 \in Sessions :
    /\ Succeeded(s1)
    /\ Len(Response(s1).destinationUid) > 0
    /\ "releaseLock" \in sess[s1].fatal
    /\ sess[s2].pc = "done"
    /\ sess[s2].fn[1].err = "STORAGE"
    /\ "releaseLock" \in sess[s2].fatal

----------------------------------------------------------------------------
(* The mailbox rows *)

(* C21: the persisted uidNext of a mailbox never decreases: every step
   leaves it at a value greater than or equal to the one it had. *)
C21_UidNextNeverDecreases ==
  [][\A b \in DOMAIN mailboxes :
       mailboxes'[b].uidNext >= mailboxes[b].uidNext]_vars

(* C23: a COPY never changes the uidValidity of a mailbox; the only change
   a step makes to the table Mailboxes is the uidNext of the destination of
   the session whose batch commits in it; and the uidValidity of the success
   result is the persisted uidValidity of the destination. *)
C23_OnlyUidNextWritten ==
  [][/\ \A b \in DOMAIN mailboxes :
          /\ mailboxes'[b].uidValidity = mailboxes[b].uidValidity
          /\ mailboxes'[b] =
               [mailboxes[b] EXCEPT !.uidNext = mailboxes'[b].uidNext]
          /\ mailboxes'[b] # mailboxes[b] =>
               \E s \in Sessions :
                 /\ BatchCommits(s)
                 /\ sess'[s].copiedMessages > 0
                 /\ sess[s].targetMailbox.id = b
     /\ DOMAIN mailboxes' = DOMAIN mailboxes
     /\ \A s \in Sessions :
          CallsBackSuccess(s) =>
            /\ Returns(s).uidValidity =
                 mailboxes'[sess[s].targetMailbox.id].uidValidity
            /\ mailboxes'[sess[s].targetMailbox.id].path =
                 sess[s].update.destination]_vars

\* a COPY into mailbox B has written its uidNext and returned B's
\* uidValidity
C23_Witness ==
  \E s \in Sessions :
    /\ Succeeded(s)
    /\ Len(Response(s).destinationUid) > 0
    /\ Response(s).uidValidity = mailboxes["B"].uidValidity
    /\ mailboxes["B"].uidNext > InitMailboxes["B"].uidNext

----------------------------------------------------------------------------
(* The order of the steps *)

\* the positions a session may go to from each position of the lock-based
\* path: validation, lock, select and batch, release, post-commit steps,
\* each with its way out to the callback
Order ==
  [idle |-> {"refresh"},
   done |-> {"refresh"},
   refresh |-> {"quota", "done"},
   quota |-> {"findSource", "done"},
   findSource |-> {"findTarget", "done"},
   findTarget |-> {"acquire", "done"},
   acquire |-> {"batch", "done"},
   batch |-> {"release"},
   release |-> {"storage", "done"},
   storage |-> {"notify", "done"},
   notify |-> {"done"}]

(* C24: within one COPY invocation the steps come in this order: session
   refresh, pre-flight quota, source lookup, destination lookup, lock
   acquisition, select and batch, lock release, and only then the post-flight
   check, the storage refresh, the notification and the callback (a failing
   step of the validation or of the lock goes to the callback at once); the
   storage is written in the batch step only, under the lock; and an error of
   the select or the batch is given to the caller in the step that ends the
   release call, not before. *)
C24_StepsInOrder ==
  [][/\ \A s \in Sessions :
          /\ sess'[s].pc # sess[s].pc => sess'[s].pc \in Order[sess[s].pc]
          /\ sess[s].pc \in {"refresh", "quota", "findSource", "findTarget",
                             "acquire"} =>
               sess[s].releases = 0 /\ ~sess[s].lock
          /\ sess[s].pc = "batch" =>
               /\ sess[s].lock /\ lockHolder = s
               /\ sess[s].acquires = 1 /\ sess[s].releases = 0
          /\ sess[s].pc \in {"storage", "notify"} =>
               sess[s].releases = 1 /\ sess[s].err = None
          /\ QuotaCheckStarts(s) =>
               sess[s].pc = "release" /\ sess'[s].pc = "storage"
          /\ BatchFails(s) =>
               /\ sess'[s].pc = "release"
               /\ sess'[s].fn = <<>>
               /\ sess'[s].releases = 1
          /\ (CallsBack(s) /\ Reported(s) = "STORAGE") =>
               sess[s].pc = "release" /\ sess[s].releases = 1
     /\ ~StorageUnchanged => \E s \in Sessions : BatchCommits(s)
     /\ notifier' # notifier =>
          \E s \in Sessions : sess[s].pc = "notify"]_vars

\* a COPY whose batch threw is at its release call and has not called back
C24_Witness ==
  \E s \in Sessions :
    /\ sess[s].pc = "release"
    /\ sess[s].err = "STORAGE"
    /\ sess[s].fn = <<>>
    /\ lockHolder = s

----------------------------------------------------------------------------
(* The source rows *)

\* the rows the select of session s returns in the state before its batch
Selected(s) ==
  Matching(messages, sess[s].mailbox.id, sess[s].update.messages)

\* the row of identifier id after the step
RowAfter(id) == CHOOSE n \in messages' : n.id = id

(* C27: a batch that commits with at least one message leaves every row
   there was in place, with its identifier, mailbox, UID and every other
   column but `copied`; `copied` is set on the selected source rows and is on
   no other row that did not have it; the row of the source mailbox is as it
   was (but for uidNext when it is the destination too); and the rows added
   are as many as the rows selected, each with an identifier no row had, owned by
   the destination mailbox. *)
C27_SourceRowsOnlyMarked ==
  [][\A s \in Sessions :
       (BatchCommits(s) /\ sess'[s].copiedMessages > 0) =>
         /\ \A m \in messages :
              /\ Cardinality({n \in messages' : n.id = m.id}) = 1
              /\ RowAfter(m.id) =
                   [m EXCEPT !.copied = m.copied \/ m \in Selected(s)]
         /\ Cardinality(NewRows) = Cardinality(Selected(s))
         /\ Cardinality(NewRows) = sess'[s].copiedMessages
         /\ \A n \in NewRows :
              /\ n.mailbox = sess[s].targetMailbox.id
              /\ n.copied = FALSE \/ \E m \in Selected(s) : m.copied
         /\ \A n1, n2 \in NewRows : n1.id = n2.id => n1 = n2
         /\ \A b \in DOMAIN mailboxes :
              b # sess[s].targetMailbox.id => mailboxes'[b] = mailboxes[b]
         /\ mailboxes'[sess[s].mailbox.id] =
              [mailboxes[sess[s].mailbox.id] EXCEPT
                 !.uidNext = mailboxes'[sess[s].mailbox.id].uidNext]]_vars

\* a COPY of UID 2 of A has succeeded: the row of UID 2 is marked, the row of
\* UID 1 of the same mailbox is not
C27_Witness ==
  /\ \E s \in Sessions :
       /\ Succeeded(s)
       /\ Response(s).sourceUid = <<2>>
       /\ Response(s).uidValidity = mailboxes["B"].uidValidity
  /\ \E n \in messages :
       n.mailbox = "B" /\ n.transaction = "COPY" /\ n.body = "m2"
  /\ \E m \in messages : m.mailbox = "A" /\ m.uid = 2 /\ m.copied
  /\ \E m \in messages : m.mailbox = "A" /\ m.uid = 1 /\ ~m.copied

----------------------------------------------------------------------------
(* The remote path *)

(* C25: on a server with this.wsp a notice is sent only in a step in which
   the remote call is outstanding before and after, and each notice sets the
   next timer; the timer is pending exactly while the remote call is
   outstanding, so that once the call has resolved or rejected no timer is
   left and the count of notices stays as it is until the next COPY. *)
C25_NoticesOnlyWhileOutstanding ==
  [][\A s \in Sessions :
       /\ conn'[s].sent # conn[s].sent =>
            \/ /\ sess[s].pc = "request" /\ sess'[s].pc = "request"
               /\ conn'[s].sent = conn[s].sent + 1
            \/ /\ sess[s].pc \in {"idle", "done"} /\ sess'[s].pc = "request"
               /\ conn'[s].sent = 0
       /\ conn'[s].timeout <=> sess'[s].pc = "request"
       /\ conn[s].timeout <=> sess[s].pc = "request"
       /\ (sess[s].pc = "request" /\ sess'[s].pc # "request") =>
            /\ sess'[s].pc = "done"
            /\ conn'[s].sent = conn[s].sent
            /\ ~conn'[s].timeout]_vars

\* a remote call during which notices were sent has ended
C25_Witness ==
  \E s \in Sessions :
    /\ wsp
    /\ sess[s].pc = "done"
    /\ conn[s].sent > 0
    /\ ~conn[s].timeout

\* what fn is given for the outcome o of this.wsp.request
Handed(o) ==
  IF o.resolved
  THEN [err |-> None, ok |-> o.bool, response |-> o.response]
  ELSE IF o.imapResponse # None
  THEN [err |-> None, code |-> o.imapResponse]
  ELSE [err |-> o.err, ok |-> FALSE, response |-> NoResponse]

(* C26: on a server with this.wsp an invocation is only ever idle, waiting
   for the remote call, or done: no step changes the storage, the lock, the
   notifier or a post-flight check, the session never calls acquireLock or
   releaseLock and never holds a mailbox row; the request handed to
   this.wsp.request is the COPY command as it came, and the one call of fn
   is the outcome of the remote call. *)
C26_RemotePathBypassesLocal ==
  [][wsp =>
       \A s \in Sessions :
         /\ sess[s].pc \in {"idle", "request", "done"}
         /\ sess'[s].pc \in {"idle", "request", "done"}
         /\ StorageUnchanged
         /\ lockHolder = None /\ lockHolder' = None
         /\ notifier' = notifier
         /\ quotaCheck' = quotaCheck /\ quotaCheck[s] = "none"
         /\ sess'[s].acquires = 0 /\ sess'[s].releases = 0
         /\ sess'[s].mailbox = NoMailbox
         /\ sess'[s].targetMailbox = NoMailbox
         /\ sess'[s].fatal = {}
         /\ (sess[s].pc # "request" /\ sess'[s].pc = "request") =>
              conn'[s].request = <<[action |-> "copy",
                                    mailboxId |-> sess'[s].mailboxId,
                                    update |-> sess'[s].update]>>
         /\ CallsBack(s) =>
              /\ sess[s].pc = "request"
              /\ \E o \in RequestOutcomes : sess'[s].fn = <<Handed(o)>>]_vars

\* a proxied COPY has handed the result of the remote process to its caller
\* and the storage is as it was
C26_Witness ==
  \E s \in Sessions :
    /\ wsp
    /\ sess[s].pc = "done"
    /\ Len(sess[s].fn) = 1
    /\ sess[s].fn[1].err = None
    /\ "response" \in DOMAIN sess[s].fn[1]
    /\ Len(sess[s].fn[1].response.destinationUid) > 0
    /\ messages = InitMessages
    /\ mailboxes = InitMailboxes

----------------------------------------------------------------------------
(* The callback *)

\* a call of fn that is the success result, complete, or one error
Outcome(c) ==
  \/ /\ DOMAIN c = {"err", "ok", "response"}
     /\ c.err = None
     /\ c.ok = TRUE
     /\ DOMAIN c.response = {"uidValidity", "sourceUid", "destinationUid"}
     /\ Len(c.response.sourceUid) = Len(c.response.destinationUid)
  \/ /\ DOMAIN c = {"err", "ok", "response"}
     /\ c.err # None
     /\ c.ok = FALSE
  \/ /\ DOMAIN c = {"err", "code"}
     /\ c.err = None
     /\ c.code # None

\* the invocation of session s is at an await of onCopy, each of which has
\* a step that ends it whatever the other variables are
CanGoOn(s) ==
  sess[s].pc \in {"refresh", "quota", "findSource", "findTarget", "acquire",
                  "batch", "release", "storage", "notify", "request"}

(* C22: an invocation that is under way has not called fn and is at an await
   that can end; an invocation that is over has called fn exactly once, with the
   success result (uidValidity, sourceUid, destinationUid) or with one error,
   on the lock-based path and on the remote path alike. *)
C22_CallbackExactlyOnce ==
  \A s \in Sessions :
    /\ sess[s].pc = "idle" => sess[s].fn = <<>>
    /\ sess[s].pc \notin {"idle", "done"} =>
         /\ sess[s].fn = <<>>
         /\ CanGoOn(s)
    /\ sess[s].pc = "done" =>
         /\ Len(sess[s].fn) = 1
         /\ Outcome(sess[s].fn[1])

\* a proxied COPY whose remote call was rejected with an imapResponse has
\* called fn once, with that response code
C22_Witness ==
  \E s \in Sessions :
    /\ wsp
    /\ sess[s].pc = "done"
    /\ sess[s].fn = <<[err |-> None, code |-> "TRYCREATE"]>>

----------------------------------------------------------------------------
(* The SMTP server *)

\* a handler is called in this step
Enters == commands' = commands + 1

(* C28: a handler (connect, auth, MAIL FROM, RCPT TO, DATA) that is called
   while the close timeout of the server is set ends in that step, its one
   call of fn being the ServerShutdownError with response code 421; it has
   called no resolver, database, rate limiter, stream or queue, and the
   session, the denylist, the rate limiter, the emails queued and the
   messages posted to the worker are as they were.  The close timeout, once
   set, stays set. *)
C28_ShutdownAnswers421 ==
  [][/\ (closeTimeout /\ Enters) =>
          /\ handler'.name \in {"connect", "auth", "mailFrom", "rcptTo", "data"}
          /\ handler'.pc = "done"
          /\ Len(handler'.fn) = 1
          /\ handler'.fn[1].err.responseCode = 421
          /\ handler'.fn[1].err.message = "Server shutting down"
          /\ handler'.fn[1].response = <<>>
          /\ handler'.did = {}
          /\ UNCHANGED <<session, db, emails, signals, denylist, limiter>>
     /\ closeTimeout => closeTimeout']_vars

\* DATA was called for an authenticated session of an account in good
\* standing while the server was shutting down, and has answered 421
C28_Witness ==
  /\ closeTimeout
  /\ handler.name = "data"
  /\ handler.pc = "done"
  /\ handler.fn[1].err.responseCode = 421
  /\ session.user # <<>>
  /\ db = [domain |-> <<GoodDomain>>, alias |-> <<GoodAlias>>]
  /\ emails = 0

\* a domain that exists, is not global, is not suspended, has outbound SMTP
\* access and has an admin in good standing on a plan that covers it
DomainPasses(domain) ==
  /\ domain # <<>>
  /\ ~domain[1].is_global
  /\ ~domain[1].smtp_suspended_sent_at
  /\ domain[1].has_smtp
  /\ \E i \in DOMAIN domain[1].members :
       LET m == domain[1].members[i]
       IN  /\ ~m.isBanned /\ m.hasVerifiedEmail /\ m.group = "admin"
           /\ m.planExpiresAt >= Now
           /\ \/ m.plan = "team"
              \/ m.plan = "enhanced_protection" /\ domain[1].plan # "team"

\* an alias that exists, is enabled, is no catch-all and no regex, and whose
\* user is not banned
AliasPasses(alias) ==
  /\ alias # <<>>
  /\ ~alias[1].user.isBanned
  /\ alias[1].is_enabled
  /\ alias[1].name # <<"*">>
  /\ alias[1].name[1] # "/"

\* session.user holds an alias identifier and a domain identifier
Authenticated ==
  /\ session.user # <<>>
  /\ session.user[1].alias_id # None
  /\ session.user[1].domain_id # None

\* the DATA handler calls fn in this step
DataCallsBack ==
  /\ handler'.name = "data"
  /\ handler'.pc = "done"
  /\ handler' # handler

\* what holds of the DATA handler whatever code an unauthenticated session
\* is answered with
DataQueuesOnlyValidated ==
  /\ emails' # emails =>
       /\ handler.name = "data" /\ handler.pc = "queue"
       /\ emails' = emails + 1
       /\ Authenticated
       /\ DomainPasses(handler.domain) /\ AliasPasses(handler.alias)
       /\ handler'.fn[1].err = NoError
  /\ (handler'.name = "data" /\ handler'.pc = "queue") =>
       \/ handler.name = "data" /\ handler.pc = "queue"
       \/ /\ handler.name = "data" /\ handler.pc = "lookup"
          /\ Authenticated
          /\ handler'.domain = db.domain /\ DomainPasses(db.domain)
          /\ handler'.alias = db.alias /\ AliasPasses(db.alias)
  /\ signals' # signals => emails' = emails + 1 /\ signals' = signals + 1
  /\ (DataCallsBack /\ handler.pc # "queue") =>
       /\ emails' = emails /\ signals' = signals
       /\ "queue" \notin handler'.did
       /\ handler'.fn[1].err # NoError
  /\ (DataCallsBack /\ emails' = emails) =>
       /\ signals' = signals
       /\ handler'.fn[1].err # NoError
       /\ handler'.fn[1].err.responseCode >= 400
  /\ (DataCallsBack /\ ~Authenticated) =>
       emails' = emails /\ "queue" \notin handler'.did

(* C29, as stated: the DATA handler queues an email only for an
   authenticated session whose domain and alias, looked up in that
   invocation, pass validation; in every other case no email is queued, no
   worker is signalled and fn is given an error, which has code 530 when the
   session is not authenticated (and the handler was not called during
   shutdown, the case of C28). *)
C29_DataQueuesOnlyValidated ==
  [][/\ DataQueuesOnlyValidated
     /\ (DataCallsBack /\ ~Authenticated /\ handler.pc = "stream") =>
          handler'.fn[1].err.responseCode = 530]_vars

(* C29, amended: as above, but the error of an unauthenticated session has
   code 530 when the message stream was read: a stream that fails or is too
   long is reported with its own error, before the session is looked at (and
   a handler called during shutdown answers 421). *)
C29_DataQueuesOnlyValidatedOnceRead ==
  [][/\ DataQueuesOnlyValidated
     /\ (DataCallsBack /\ ~Authenticated) =>
          IF handler.pc # "stream"
          THEN closeTimeout /\ handler'.fn[1].err = ServerShutdownError
          ELSE \/ handler'.fn[1].err.responseCode = 530
               \/ handler'.fn[1].err.message = "maxBuffer exceeded"
     /\ (DataCallsBack /\ handler'.fn[1].err.responseCode = 530) =>
          ~Authenticated /\ handler.pc = "stream"]_vars

\* DATA has queued an email and signalled the worker
C29_Witness ==
  /\ handler.name = "data"
  /\ handler.pc = "done"
  /\ handler.fn[1].err = NoError
  /\ emails = 1
  /\ signals = 1
  /\ DomainPasses(handler.domain)
  /\ AliasPasses(handler.alias)

====
